---- MODULE Spec2Model ----
(***************************************************************************)
(* The reminder / notification scheduling engine of the productivity       *)
(* backend: the occurrence calculator, the delayed-job dispatcher, the     *)
(* reminder firing handler and the domain schedulers                       *)
(* (src/src/services/queueService.ts, notificationScheduler.ts) together   *)
(* with the routine routes that call them (src/src/routes/routine.ts).     *)
(*                                                                         *)
(* Time is counted in whole minutes since 2024-01-01 00:00 (a Monday) in   *)
(* the server's local zone, taken to have no daylight-saving shifts.       *)
(* Every instant the schedulers compare the clock with is minute-aligned   *)
(* (setHours(h, m, 0, 0)), so `x <= now` on milliseconds and on the minute *)
(* that contains `now` agree.                                              *)
(***************************************************************************)
EXTENDS Integers, Sequences, FiniteSets, TLC

VARIABLES
    now,          \* the wall clock (Date.now()), in minutes
    reminders,    \* prisma.reminder : set of Reminder records
    alarms,       \* prisma.alarm : set of Alarm records
    notifications,\* prisma.notification : set of Notification records
    routines,     \* prisma.routine (+ routineTasks) : set of Routine records
    jobs,         \* delayed and waiting jobs of the 'reminders' queue
    njobs,        \* delayed and waiting jobs of the 'notifications' queue
    nextId,       \* source of fresh record / job identifiers
    pushes,       \* pushes handed to pushNotificationService.sendPushNotification
    settings,     \* user.settings.notifications of the (single) device owner
    pushAvailable,\* pushNotificationService.isAvailable(): set when the service starts
    calls,        \* number of route / scheduler calls made so far
    redelivered,  \* number of jobs the queue has delivered again after a stall
    lastFire,     \* what the last processReminderJob run did
    lastCall,     \* what the last route / scheduler call did
    inflight,     \* scheduler calls that have started and not yet returned
    milestones    \* prisma.milestone : set of Milestone records, each with its goal

vars == <<now, reminders, alarms, notifications, routines, jobs, njobs, nextId,
          pushes, settings, pushAvailable, calls, redelivered, lastFire, lastCall,
          inflight, milestones>>

-----------------------------------------------------------------------------
(* Bounds of the model *)

MaxTime == 43920        \* the clock stops advancing here (minutes; 2024-01-31 12:00)
MaxCalls == 2          \* route / scheduler calls per behaviour
MaxRedeliver == 1      \* redeliveries of an already processed job per behaviour

-----------------------------------------------------------------------------
(* Calendar arithmetic of the JavaScript Date object (local time, no DST) *)

MinPerHour == 60
MinPerDay == 24 * 60
Years == 2024 .. 2026      \* the years the model's instants fall in
NoDate == 0 - 1            \* null where a Date is expected

IsLeap(y) == (y % 4 = 0 /\ y % 100 # 0) \/ y % 400 = 0

\* number of days of month m (0 = January) of year y
DaysInMonth(y, m) ==
    IF m = 1 THEN (IF IsLeap(y) THEN 29 ELSE 28)
    ELSE IF m \in {3, 5, 8, 10} THEN 30 ELSE 31

RECURSIVE DaysBeforeMonth(_, _)
DaysBeforeMonth(y, m) ==
    IF m = 0 THEN 0 ELSE DaysBeforeMonth(y, m - 1) + DaysInMonth(y, m - 1)

DaysInYear(y) == IF IsLeap(y) THEN 366 ELSE 365

RECURSIVE DaysBeforeYear(_)
DaysBeforeYear(y) ==
    IF y <= 2024 THEN 0 ELSE DaysBeforeYear(y - 1) + DaysInYear(y - 1)

\* the day number of the first day of each month, tabulated
MonthStart ==
    [y \in 2024..2027 |-> [m \in 0..11 |-> DaysBeforeYear(y) + DaysBeforeMonth(y, m)]]

\* ECMAScript MakeDay/MakeTime/MakeDate: month, day, hour and minute may lie
\* outside their range and carry over into the next larger unit.
MakeDate(y, m, d, hh, mm) ==
    (MonthStart[y + (m \div 12)][m % 12] + (d - 1)) * MinPerDay + hh * MinPerHour + mm


DayNumber(t) == t \div MinPerDay

\* YearFromTime, MonthFromTime and DateFromTime of each day, tabulated from the
\* table ms of month starts
DatesOf(ms) ==
    [n \in 0..(ms[2027][0] - 1) |->
        LET y == CHOOSE y \in Years : ms[y][0] <= n /\ n < ms[y + 1][0]
            m == CHOOSE m \in 0..11 : ms[y][m] <= n /\ (m = 11 \/ n < ms[y][m + 1])
        IN  <<y, m, n - ms[y][m] + 1>>]
YearMonthDate == DatesOf(MonthStart)

getFullYear(t) == YearMonthDate[t \div MinPerDay][1]
getMonth(t) == YearMonthDate[t \div MinPerDay][2]
getDate(t) == YearMonthDate[t \div MinPerDay][3]
getHours(t) == (t % MinPerDay) \div MinPerHour
getMinutes(t) == t % MinPerHour
\* 2024-01-01 is a Monday; getDay() counts from Sunday = 0
getDay(t) == ((t \div MinPerDay) + 1) % 7

\* Date.prototype.setHours(h, m, 0, 0): MakeDate(Day(t), MakeTime(h, m, 0, 0))
setHours(t, hh, mm) == (t \div MinPerDay) * MinPerDay + hh * MinPerHour + mm
\* Date.prototype.setDate(d): MakeDate(MakeDay(year, month, d), TimeWithinDay(t)),
\* and MakeDay(year, month, d) is Day(t) + d - DateFromTime(t)
setDate(t, d) == t + (d - YearMonthDate[t \div MinPerDay][3]) * MinPerDay
\* MakeDate(MakeDay(ymd[1], m, ymd[3]), time)
DateInMonth(ymd, m, time) ==
    (MonthStart[ymd[1] + (m \div 12)][m % 12] + (ymd[3] - 1)) * MinPerDay + time
\* Date.prototype.setMonth(m): MakeDate(MakeDay(year, m, date), TimeWithinDay(t))
setMonth(t, m) == DateInMonth(YearMonthDate[t \div MinPerDay], m, t % MinPerDay)

-----------------------------------------------------------------------------
(* Values stored in the records *)

Users == {"u1", "u2"}
TaskIds == {101, 102}          \* ids of Task rows (targetId of TASK reminders)

\* A clock time "HH:mm" is the pair of numbers its two fields parse to
\* (split(':').map(Number)); NoTime is an absent (null / undefined) time.
NoTime == <<>>
HHmm(h, m) == <<h, m>>

\* Titles are strings over letters that occur in none of the fixed texts of the
\* title / note templates, so a substring match is decided by the title alone.
Titles == {<<"X">>, <<"X", "Z">>, <<"Q">>}

IsPrefix(p, s) == Len(p) <= Len(s) /\ SubSeq(s, 1, Len(p)) = p
\* String.prototype.includes / Prisma { contains: p }
Includes(s, p) == \E i \in 0..(Len(s) - Len(p)) : SubSeq(s, i + 1, i + Len(p)) = p

\* A rendered template literal: its fixed text and the titles interpolated in it.
Text(tmpl, args) == [tmpl |-> tmpl, args |-> args]
\* { contains: title } on a rendered text
TextContains(text, title) == \E i \in 1..Len(text.args) : Includes(text.args[i], title)
\* { contains: `<fixed text>${title}` } on a rendered text whose title comes last
TextContainsLabel(text, tmpl, title) == text.tmpl = tmpl /\ IsPrefix(title, text.args[1])

\* reminderBefore "<n>h|d|w"; NoBefore is null
NoBefore == [value |-> 0, unit |-> "none"]

\* The schedule descriptor (a JSON value). Absent fields hold NoDate, "NONE",
\* NoTime, <<>>, 0, NoBefore.
ScheduleOf(at, frequency, time, days, day, timezone) ==
    [at |-> at, frequency |-> frequency, time |-> time, days |-> days, day |-> day,
     timezone |-> timezone, routineId |-> 0, taskId |-> 0, goalId |-> 0,
     milestoneId |-> 0, alarmId |-> 0, reminderBefore |-> NoBefore]
AtSchedule(at) == ScheduleOf(at, "NONE", NoTime, <<>>, 0, "none")

\* A schedule column that holds a JSON string or number instead of an object
NotAnObject == [json |-> "string"]
\* schedule && typeof schedule === 'object'
IsObject(schedule) == "frequency" \in DOMAIN schedule
\* schedule.timezone || 'UTC' (a value that is no object has no timezone field)
scheduleTimezone(schedule) ==
    IF IsObject(schedule) /\ schedule.timezone # "none" THEN schedule.timezone ELSE "UTC"

\* A Reminder row. `call` is bookkeeping of the model: the number of the
\* scheduler call that inserted the row.
Reminder(id, userId, targetType, targetId, title, note, schedule, call) ==
    [id |-> id, userId |-> userId, targetType |-> targetType, targetId |-> targetId,
     title |-> title, note |-> note, triggerType |-> "TIME", schedule |-> schedule,
     call |-> call]

ReminderIds == {r.id : r \in reminders}
ReminderById(id) == CHOOSE r \in reminders : r.id = id

-----------------------------------------------------------------------------
(* queueService.ts: the occurrence calculator *)

\* (mutant) the candidate is moved on whether it has passed or not
AddDaysIfPassed_Always(next, n, t) == setDate(next, getDate(next) + n)

\* if (next <= now) next.setDate(next.getDate() + n)
AddDaysIfPassed(next, n, t) ==
    IF next <= t THEN setDate(next, getDate(next) + n) ELSE next

\* the WEEKLY branch: the soonest of the per-day candidates
WeeklyCandidate(day, hh, mm, t) ==
    AddDaysIfPassed(setHours(setDate(t, getDate(t) + ((day - getDay(t) + 7) % 7)), hh, mm), 7, t)

\* (mutant) the latest of the candidates is kept
Soonest_Latest(S) == CHOOSE d \in S : \A e \in S : d >= e

\* if (!soonest || d < soonest) soonest = d
Soonest(S) == CHOOSE d \in S : \A e \in S : d <= e

\* the MONTHLY branch: a day beyond the end of the next month is clamped
ClampedDate(moved, targetDay, daysInMonth) ==
    IF targetDay > daysInMonth THEN setDate(moved, daysInMonth) ELSE setDate(moved, targetDay)
MonthRolled(moved, targetDay) ==
    ClampedDate(moved, targetDay, DaysInMonth(getFullYear(moved), getMonth(moved)))
NextMonthIfPassed(next, targetDay, t) ==
    IF next <= t THEN MonthRolled(setMonth(next, getMonth(next) + 1), targetDay) ELSE next
MonthlyNext(targetDay, hh, mm, t) ==
    NextMonthIfPassed(setHours(setDate(t, targetDay), hh, mm), targetDay, t)

\* (mutant) the candidate of today is returned even when it has passed
computeNextOccurrence_NoAdvance(schedule, timezone, t) ==
    IF schedule.at # NoDate THEN NoDate
    ELSE IF schedule.frequency \in {"DAILY", "WEEKLY", "MONTHLY"} /\ schedule.time # NoTime
    THEN setHours(t, schedule.time[1], schedule.time[2])
    ELSE NoDate

\* (mutant) a one-shot schedule recurs daily
computeNextOccurrence_AtRecurs(schedule, timezone, t) ==
    IF schedule.at # NoDate THEN setDate(t, getDate(t) + 1) ELSE NoDate

\* (mutant) whatever is not a one-shot schedule recurs at the next midnight
computeNextOccurrence_AlwaysDaily(schedule, timezone, t) ==
    IF IsObject(schedule) /\ schedule.at # NoDate THEN NoDate
    ELSE setDate(setHours(t, 0, 0), getDate(t) + 1)

\* computeNextOccurrence(schedule, timezone) evaluated when the clock reads t.
\* The timezone argument is never read by the function body.
computeNextOccurrence(schedule, timezone, t) ==
    IF ~IsObject(schedule) THEN NoDate
    ELSE IF schedule.at # NoDate THEN NoDate
    ELSE IF schedule.frequency = "DAILY" /\ schedule.time # NoTime THEN
        AddDaysIfPassed(setHours(t, schedule.time[1], schedule.time[2]), 1, t)
    ELSE IF schedule.frequency = "WEEKLY" /\ schedule.time # NoTime THEN
        LET days == IF Len(schedule.days) > 0 THEN schedule.days ELSE <<getDay(t)>>
        IN  Soonest({WeeklyCandidate(days[i], schedule.time[1], schedule.time[2], t) :
                        i \in 1..Len(days)})
    ELSE IF schedule.frequency = "MONTHLY" /\ schedule.time # NoTime /\ schedule.day # 0 THEN
        MonthlyNext(schedule.day, schedule.time[1], schedule.time[2], t)
    ELSE NoDate

-----------------------------------------------------------------------------
(* queueService.ts: the delayed-job dispatcher *)

\* (mutant) a delay of zero or less is let through
scheduleReminderAccepts_PastOk(scheduledFor, t) == TRUE

\* scheduleReminder throws when delay = scheduledFor - Date.now() <= 0
scheduleReminderAccepts(scheduledFor, t) == scheduledFor - t > 0

\* the job scheduleJob adds to the 'reminders' queue; it becomes due `delay`
\* after the instant it was added
ReminderJob(jid, reminderId, userId, type, scheduledFor, t) ==
    [jid |-> jid, reminderId |-> reminderId, userId |-> userId, type |-> type,
     fireAt |-> t + (scheduledFor - t)]

-----------------------------------------------------------------------------
(* queueService.ts: the reminder firing handler *)

Unset == "unset"
\* user.settings.notifications; a flag is "true", "false" or absent
DefaultSettings ==
    [pushNotifications |-> Unset, taskReminders |-> Unset, goalReminders |-> Unset,
     dueDateReminders |-> Unset, routineReminders |-> Unset]

\* (mutant) a disabled category suppresses the pushes of every type
shouldSendPush_AnyCategory(type, ns) ==
    /\ ns.pushNotifications # "false"
    /\ "false" \notin {ns.taskReminders, ns.goalReminders, ns.dueDateReminders,
                      ns.routineReminders}

\* shouldSendPush of processReminderJob
shouldSendPush(type, ns) ==
    IF type = "TASK_REMINDER" /\ ns.taskReminders = "false" THEN FALSE
    ELSE IF type = "GOAL_REMINDER" /\ ns.goalReminders = "false" THEN FALSE
    ELSE IF type = "DUE_DATE_REMINDER" /\ ns.dueDateReminders = "false" THEN FALSE
    ELSE IF type = "ROUTINE_REMINDER" /\ ns.routineReminders = "false" THEN FALSE
    ELSE ns.pushNotifications # "false"

\* schedule of a reminder that was not found
NoSchedule == ScheduleOf(NoDate, "NONE", NoTime, <<>>, 0, "none")

NoFire ==
    [jid |-> 0, reminderId |-> 0, userId |-> "none", type |-> "none", at |-> NoDate,
     found |-> FALSE, schedule |-> NoSchedule, pushed |-> FALSE, next |-> NoDate,
     enqueued |-> <<>>, added |-> {}, result |-> "none", device |-> "none"]

\* the scheduleReminder calls of the recurrence step, in order
CallsFor(j, next) ==
    IF next # NoDate
    THEN <<[reminderId |-> j.reminderId, userId |-> j.userId,
            scheduledFor |-> next, type |-> j.type]>>
    ELSE <<>>
RescheduleCalls(j, r, t) ==
    CallsFor(j, computeNextOccurrence(r.schedule, scheduleTimezone(r.schedule), t))

\* the jobs those calls add (a call with delay <= 0 throws and adds nothing; the
\* handler logs the error and goes on)
JobsAdded(cs, t) ==
    {ReminderJob(nextId + i - 1, cs[i].reminderId, cs[i].userId, cs[i].type,
                 cs[i].scheduledFor, t) :
        i \in {k \in 1..Len(cs) : scheduleReminderAccepts(cs[k].scheduledFor, t)}}

\* pushNotificationService.sendPushNotification called for job j: the pushes are
\* counted per job
PushSent(ps, j) ==
    IF j.jid \in DOMAIN ps
    THEN [ps EXCEPT ![j.jid].count = @ + 1]
    ELSE (j.jid :> [reminderId |-> j.reminderId, userId |-> j.userId, type |-> j.type,
                    count |-> 1]) @@ ps

\* (mutant) an error of the provider is passed on to the caller
sendPushNotification_Rethrows(device) ==
    [threw |-> device = "providerError", sent |-> device = "ok"]

\* PushNotificationService.sendPushNotification on a device that takes the
\* message ("ok"), has no valid token ("noToken") or whose provider rejects
\* every send ("providerError"): the value returned, and whether it throws
sendPushNotification(device) == [threw |-> FALSE, sent |-> device = "ok"]

\* (mutant) a job whose reminder is missing is scheduled again a day later
Handling_ReschedulesWhenMissing(j, t, device) ==
    [found |-> j.reminderId \in ReminderIds,
     push |-> j.reminderId \in ReminderIds /\ shouldSendPush(j.type, settings) /\ pushAvailable,
     failed |-> FALSE,
     calls |-> IF j.reminderId \in ReminderIds
               THEN RescheduleCalls(j, ReminderById(j.reminderId), t)
               ELSE CallsFor(j, t + MinPerDay)]

\* (mutant) the handler goes on when the reminder is missing
Handling_NoMissingCheck(j, t, device) ==
    [found |-> j.reminderId \in ReminderIds,
     push |-> shouldSendPush(j.type, settings) /\ pushAvailable,
     failed |-> FALSE,
     calls |-> <<>>]

\* what processReminderJob does with job j: whether the reminder is found,
\* whether a push is sent, whether an error leaves the handler, and the
\* scheduleReminder calls of the recurrence step
Handling(j, t, device) ==
    LET found == j.reminderId \in ReminderIds
        push == found /\ shouldSendPush(j.type, settings) /\ pushAvailable
        failed == push /\ sendPushNotification(device).threw
    IN  [found |-> found,
         push |-> push,
         failed |-> failed,
         calls |-> IF found /\ ~failed
                   THEN RescheduleCalls(j, ReminderById(j.reminderId), t) ELSE <<>>]

\* (mutant) a reminder that is not scheduled again is deleted once it has fired
RemindersAfterFiring_DeletesExpired(rs, j, cs) ==
    IF cs = <<>> THEN {r \in rs : r.id # j.reminderId} ELSE rs

\* the reminder rows after processReminderJob has run on job j and made the
\* scheduleReminder calls cs: the handler reads the row (findUnique) and never
\* updates or deletes one
RemindersAfterFiring(rs, j, cs) == rs

\* The worker runs processReminderJob on job j, which is due, the user's device
\* being in condition `device`. `acked` is FALSE when the worker loses the job
\* after the processor has run (a stalled job): the queue then delivers the same
\* job again. A job whose processor throws stays with the queue for its retry.
ProcessReminderJobOn(j, acked, device) ==
    /\ j \in jobs
    /\ j.fireAt <= now
    /\ acked \/ redelivered < MaxRedeliver
    /\ \E h \in {Handling(j, now, device)} :
       \E added \in {JobsAdded(h.calls, now)} :
       \E r \in {IF h.found THEN ReminderById(j.reminderId) ELSE [schedule |-> NoSchedule]} :
           /\ pushes' = IF h.push THEN PushSent(pushes, j) ELSE pushes
           /\ reminders' = RemindersAfterFiring(reminders, j, h.calls)
           /\ jobs' = (IF acked /\ ~h.failed THEN jobs \ {j} ELSE jobs) \cup added
           /\ nextId' = nextId + Len(h.calls)
           /\ lastFire' = [jid |-> j.jid, reminderId |-> j.reminderId, userId |-> j.userId,
                           type |-> j.type, at |-> now, found |-> h.found,
                           schedule |-> r.schedule,
                           pushed |-> h.push,
                           next |-> IF h.found
                                    THEN computeNextOccurrence(r.schedule, scheduleTimezone(r.schedule), now)
                                    ELSE NoDate,
                           enqueued |-> h.calls, added |-> {a.jid : a \in added},
                           result |-> IF h.failed THEN "failed" ELSE "completed",
                           device |-> device]
           /\ redelivered' = IF acked THEN redelivered ELSE redelivered + 1
    /\ UNCHANGED <<inflight, milestones, now, alarms, notifications, routines, njobs, settings, pushAvailable, calls,
                   lastCall>>

\* the same with a device that takes the message
ProcessReminderJob(j, acked) == ProcessReminderJobOn(j, acked, "ok")

\* Time passes until the next queued job is due.
Tick ==
    /\ \E j \in jobs :
          /\ j.fireAt > now
          /\ j.fireAt <= MaxTime
          /\ now' = j.fireAt
    /\ UNCHANGED <<inflight, milestones, reminders, alarms, notifications, routines, jobs, njobs, nextId,
                   pushes, settings, pushAvailable, calls, redelivered, lastFire, lastCall>>

-----------------------------------------------------------------------------
(* notificationScheduler.ts: a batch of one-shot reminders *)

\* One planned reminder of a batch: its trigger instant and the row's texts.
Planned(time, title, note, schedule) ==
    [time |-> time, title |-> title, note |-> note, schedule |-> schedule]

\* the rows prisma.reminder.create inserts for a plan, in order, with fresh ids
BatchRows(plan, userId, targetType, targetId, callNo) ==
    {Reminder(nextId + i - 1, userId, targetType, targetId, plan[i].title, plan[i].note,
              plan[i].schedule, callNo) : i \in 1..Len(plan)}

\* the positions of the plan whose scheduleReminder call succeeds
BatchAccepted(plan, t) == {i \in 1..Len(plan) : scheduleReminderAccepts(plan[i].time, t)}

\* "Schedule all reminders": one job per row; a row whose scheduleReminder call
\* throws is deleted again
BatchJobs(plan, userId, type, t) ==
    {ReminderJob(nextId + Len(plan) + i - 1, nextId + i - 1, userId, type, plan[i].time, t) :
        i \in BatchAccepted(plan, t)}
BatchKept(plan, userId, targetType, targetId, callNo, t) ==
    {r \in BatchRows(plan, userId, targetType, targetId, callNo) :
        (r.id - nextId + 1) \in BatchAccepted(plan, t)}

\* The store and queue operations of a scheduler call that fail: the deleteMany
\* at its start, the prisma.reminder.create, scheduleReminder and compensating
\* prisma.reminder.delete of the plan's positions and, in the routine schedulers,
\* prisma.routine.findUnique and prisma.alarm.create.
NoFaults ==
    [deleteMany |-> FALSE, create |-> {}, enqueue |-> {}, delete |-> {},
     findUnique |-> FALSE, alarmCreate |-> FALSE]

\* The positions of the plan whose row is inserted. `guarded` says that every
\* create sits in a try / catch of its own; without it the first create that
\* throws leaves the body for the catch of the whole function.
BatchCreated(plan, faults, guarded) ==
    {i \in 1..Len(plan) :
        /\ i \notin faults.create
        /\ guarded \/ \A k \in 1..i : k \notin faults.create}
\* whether the "Schedule all reminders" loop is reached
LoopReached(plan, faults, guarded) ==
    guarded \/ \A k \in 1..Len(plan) : k \notin faults.create
\* the positions whose scheduleReminder call succeeds
BatchEnqueued(plan, faults, guarded, t) ==
    {i \in BatchCreated(plan, faults, guarded) :
        /\ LoopReached(plan, faults, guarded)
        /\ i \notin faults.enqueue
        /\ scheduleReminderAccepts(plan[i].time, t)}
\* (mutant) the catch of the loop body does not delete the row
BatchCompensated_NoDelete(created, enqueued, reached, faults) == {}

\* the positions whose row the catch of the loop body deletes again
\* (prisma.reminder.delete(...).catch(() => {}): a failing delete is ignored)
BatchCompensated(created, enqueued, reached, faults) ==
    {i \in created \ enqueued : reached /\ i \notin faults.delete}
\* an error reaches the catch of the whole function
BatchRaised(plan, faults, guarded) ==
    faults.deleteMany \/ ~LoopReached(plan, faults, guarded)

\* (mutant) the catch of the whole function throws the error on
OuterCatch_Rethrows(raised) == raised

\* catch (error) { logger.error(...) }: whether the caller sees the error
OuterCatch(raised) == FALSE

\* What a scheduler call did (bookkeeping of the model): its number, operation and
\* arguments, the clock, the resolved due instant, the ids of the rows it deleted
\* and inserted, the trigger instants it planned, the ids of the jobs it added, the
\* first id it could hand out, the operations that failed in it, whether an error
\* reached the catch of the whole function and whether the caller saw one.
NoCall ==
    [n |-> 0, op |-> "none", userId |-> "none", target |-> 0, title |-> <<>>, args |-> <<>>,
     at |-> NoDate, due |-> NoDate, deleted |-> {}, created |-> {}, triggers |-> <<>>,
     jobs |-> {}, base |-> 0, faults |-> NoFaults, raised |-> FALSE, threw |-> FALSE]
CallRecord(op, userId, target, title, args, due, deleted, created, triggers, newJobs) ==
    [n |-> calls + 1, op |-> op, userId |-> userId, target |-> target, title |-> title,
     args |-> args, at |-> now, due |-> due, deleted |-> deleted, created |-> created,
     triggers |-> triggers, jobs |-> newJobs, base |-> nextId, faults |-> NoFaults,
     raised |-> FALSE, threw |-> FALSE]

-----------------------------------------------------------------------------
(* notificationScheduler.ts: task due-date reminders *)

\* the due instant: dueDate combined with dueTime, or 23:59 of dueDate
TaskDueDateTime(dueDate, dueTime) ==
    IF dueTime # NoTime
    THEN setHours(dueDate, dueTime[1], dueTime[2])
    ELSE setHours(dueDate, 23, 59)

\* the three rows the call may create: 1 day before, 1 hour before, at due time
TaskRows(due, taskTitle) ==
    LET oneDayBefore == setDate(due, getDate(due) - 1)
        oneHourBefore == setHours(due, getHours(due) - 1, getMinutes(due))
    IN  <<Planned(oneDayBefore, Text("Task Due Tomorrow: ", <<taskTitle>>),
                  Text("Your task is due tomorrow.", <<taskTitle>>), AtSchedule(oneDayBefore)),
          Planned(oneHourBefore, Text("Task Due in 1 Hour: ", <<taskTitle>>),
                  Text("Your task is due in 1 hour.", <<taskTitle>>), AtSchedule(oneHourBefore)),
          Planned(due, Text("Task Due: ", <<taskTitle>>),
                  Text("Your task is due now.", <<taskTitle>>), AtSchedule(due))>>

\* (mutant) the offsets are not tested against the clock
TaskPlan_NoSkip(due, taskTitle, t) ==
    IF due <= t THEN <<>> ELSE TaskRows(due, taskTitle)

\* (mutant) the past-due test is missing
TaskPlan_NoPastDueTest(due, taskTitle, t) ==
    LET rows == TaskRows(due, taskTitle)
    IN  (IF rows[1].time > t /\ rows[1].time < due THEN <<rows[1]>> ELSE <<>>)
        \o (IF rows[2].time > t /\ rows[2].time < due THEN <<rows[2]>> ELSE <<>>)
        \o <<rows[3]>>

\* the reminders the call creates, in creation order
TaskPlan(due, taskTitle, t) ==
    LET rows == TaskRows(due, taskTitle)
    IN  IF due <= t THEN <<>>
        ELSE (IF rows[1].time > t /\ rows[1].time < due THEN <<rows[1]>> ELSE <<>>)
             \o (IF rows[2].time > t /\ rows[2].time < due THEN <<rows[2]>> ELSE <<>>)
             \o <<rows[3]>>

\* (mutant) the delete filter names the wrong target type
IsTaskReminder_WrongType(r, taskId, userId) ==
    r.targetType = "GOAL" /\ r.targetId = taskId /\ r.userId = userId

\* { targetType: 'TASK', targetId: taskId, userId }
IsTaskReminder(r, taskId, userId) ==
    r.targetType = "TASK" /\ r.targetId = taskId /\ r.userId = userId

scheduleTaskDueDateNotifications(taskId, userId, dueDate, taskTitle, dueTime) ==
    /\ calls < MaxCalls
    /\ LET remaining == {r \in reminders : ~IsTaskReminder(r, taskId, userId)}
           due == TaskDueDateTime(dueDate, dueTime)
           plan == TaskPlan(due, taskTitle, now)
           rows == BatchRows(plan, userId, "TASK", taskId, calls + 1)
           kept == BatchKept(plan, userId, "TASK", taskId, calls + 1, now)
           added == BatchJobs(plan, userId, "DUE_DATE_REMINDER", now)
       IN  /\ reminders' = remaining \cup kept
           /\ jobs' = jobs \cup added
           /\ nextId' = nextId + 2 * Len(plan)
           /\ lastCall' = CallRecord("task", userId, taskId, taskTitle,
                                     [dueDate |-> dueDate, dueTime |-> dueTime], due,
                                     {r.id : r \in reminders \ remaining},
                                     {r.id : r \in rows},
                                     [i \in 1..Len(plan) |-> plan[i].time],
                                     {j.jid : j \in added})
    /\ calls' = calls + 1
    /\ UNCHANGED <<inflight, milestones, now, alarms, notifications, routines, njobs, pushes, settings, pushAvailable,
                   redelivered, lastFire>>

-----------------------------------------------------------------------------
(* The task service: the create / update task routes call the task scheduler,
   the worker fires the jobs. *)

StartTimes == {MakeDate(2024, 0, 30, 9, 0), MakeDate(2024, 0, 30, 23, 20)}
\* the due date and due time sent by the client: the date as minutes from the
\* time of the request, and whether a due time (the date's own clock time) is sent
TaskInputs ==
    {<<0 - 90, TRUE>>, <<0, TRUE>>, <<45, TRUE>>, <<60, TRUE>>, <<61, TRUE>>,
     <<24 * 60, TRUE>>, <<24 * 60 + 1, TRUE>>, <<2 * 24 * 60 + 30, TRUE>>,
     <<0 - 24 * 60, FALSE>>, <<0, FALSE>>, <<24 * 60, FALSE>>, <<3 * 24 * 60, FALSE>>}
ClockTimeOf(t) == HHmm(getHours(t), getMinutes(t))

InitStores ==
    /\ reminders = {} /\ alarms = {} /\ notifications = {} /\ routines = {}
    /\ jobs = {} /\ njobs = {} /\ nextId = 1 /\ pushes = <<>>
    /\ calls = 0 /\ redelivered = 0 /\ lastFire = NoFire /\ lastCall = NoCall /\ inflight = {}
    /\ milestones = {}

InitTask ==
    /\ now \in StartTimes
    /\ settings = DefaultSettings
    /\ pushAvailable \in BOOLEAN
    /\ InitStores

\* POST /tasks, PUT /tasks/:id
TaskRoute ==
    \E userId \in Users, in \in TaskInputs :
        scheduleTaskDueDateNotifications(101, userId, now + in[1], <<"X">>,
            IF in[2] THEN ClockTimeOf(now + in[1]) ELSE NoTime)

\* time passes between two requests
Advance ==
    /\ now + 24 * 60 + 17 <= MaxTime
    /\ now' = now + 24 * 60 + 17
    /\ UNCHANGED <<inflight, milestones, reminders, alarms, notifications, routines, jobs, njobs, nextId,
                   pushes, settings, pushAvailable, calls, redelivered, lastFire, lastCall>>

NextTask == TaskRoute \/ Advance

SpecTask == InitTask /\ [][NextTask]_vars

-----------------------------------------------------------------------------
(* notificationScheduler.ts: goal target-date reminders *)

GoalIds == {201, 202}

\* schedule: { at, goalId }
GoalSchedule(at, goalId) == [AtSchedule(at) EXCEPT !.goalId = goalId]

\* { targetType: 'GOAL', userId, note: { contains: goalTitle } }
IsGoalReminder(r, userId, goalTitle) ==
    r.targetType = "GOAL" /\ r.userId = userId /\ TextContains(r.note, goalTitle)

\* (mutant) the reminder a week before the target date is left out
GoalPlan_NoWeekBefore(goalId, targetDateTime, goalTitle, t) ==
    LET oneDayBefore == setDate(targetDateTime, getDate(targetDateTime) - 1)
    IN  IF targetDateTime <= t THEN <<>>
        ELSE (IF oneDayBefore > t /\ oneDayBefore < targetDateTime
              THEN <<Planned(oneDayBefore, Text("Goal Deadline Tomorrow: ", <<goalTitle>>),
                             Text("Your goal deadline is tomorrow.", <<goalTitle>>),
                             GoalSchedule(oneDayBefore, goalId))>>
              ELSE <<>>)
             \o <<Planned(targetDateTime, Text("Goal Deadline Today: ", <<goalTitle>>),
                          Text("Your goal deadline is today.", <<goalTitle>>),
                          GoalSchedule(targetDateTime, goalId))>>

\* the reminders the call creates, in creation order: 1 week before, 1 day
\* before, at the target date
GoalPlan(goalId, targetDateTime, goalTitle, t) ==
    LET oneWeekBefore == setDate(targetDateTime, getDate(targetDateTime) - 7)
        oneDayBefore == setDate(targetDateTime, getDate(targetDateTime) - 1)
    IN  IF targetDateTime <= t THEN <<>>
        ELSE (IF oneWeekBefore > t /\ oneWeekBefore < targetDateTime
              THEN <<Planned(oneWeekBefore, Text("Goal Deadline in 1 Week: ", <<goalTitle>>),
                             Text("Your goal deadline is in 1 week.", <<goalTitle>>),
                             GoalSchedule(oneWeekBefore, goalId))>>
              ELSE <<>>)
             \o (IF oneDayBefore > t /\ oneDayBefore < targetDateTime
                 THEN <<Planned(oneDayBefore, Text("Goal Deadline Tomorrow: ", <<goalTitle>>),
                                Text("Your goal deadline is tomorrow.", <<goalTitle>>),
                                GoalSchedule(oneDayBefore, goalId))>>
                 ELSE <<>>)
             \o <<Planned(targetDateTime, Text("Goal Deadline Today: ", <<goalTitle>>),
                          Text("Your goal deadline is today.", <<goalTitle>>),
                          GoalSchedule(targetDateTime, goalId))>>

\* targetId is null (0) for GOAL reminders
scheduleGoalTargetDateNotifications(goalId, userId, targetDate, goalTitle) ==
    /\ calls < MaxCalls
    /\ LET remaining == {r \in reminders : ~IsGoalReminder(r, userId, goalTitle)}
           plan == GoalPlan(goalId, targetDate, goalTitle, now)
           rows == BatchRows(plan, userId, "GOAL", 0, calls + 1)
           kept == BatchKept(plan, userId, "GOAL", 0, calls + 1, now)
           added == BatchJobs(plan, userId, "GOAL_REMINDER", now)
       IN  /\ reminders' = remaining \cup kept
           /\ jobs' = jobs \cup added
           /\ nextId' = nextId + 2 * Len(plan)
           /\ lastCall' = CallRecord("goal", userId, goalId, goalTitle,
                                     [targetDate |-> targetDate], targetDate,
                                     {r.id : r \in reminders \ remaining},
                                     {r.id : r \in rows},
                                     [i \in 1..Len(plan) |-> plan[i].time],
                                     {j.jid : j \in added})
    /\ calls' = calls + 1
    /\ UNCHANGED <<inflight, milestones, now, alarms, notifications, routines, njobs, pushes, settings, pushAvailable,
                   redelivered, lastFire>>

-----------------------------------------------------------------------------
(* The goal scheduler called again and again for goals of one user, whose title
   and target date change between the calls. *)

GoalOwner == "u1"
\* the target date, as minutes from the time of the call
GoalInputs == {0 - 60, 30, 2 * 24 * 60, 8 * 24 * 60}

InitGoal ==
    /\ now \in StartTimes
    /\ settings = DefaultSettings
    /\ pushAvailable \in BOOLEAN
    /\ InitStores

GoalCall ==
    \E goalId \in GoalIds, in \in GoalInputs, goalTitle \in Titles :
        scheduleGoalTargetDateNotifications(goalId, GoalOwner, now + in, goalTitle)

NextGoal == GoalCall \/ Advance

SpecGoal == InitGoal /\ [][NextGoal]_vars

-----------------------------------------------------------------------------
(* notificationScheduler.ts: milestone due-date reminders *)


\* schedule: { at, milestoneId, goalId }
MilestoneSchedule(at, milestoneId, goalId) ==
    [AtSchedule(at) EXCEPT !.milestoneId = milestoneId, !.goalId = goalId]

\* dueDateTime.setHours(23, 59, 0, 0)
MilestoneDueDateTime(dueDate) == setHours(dueDate, 23, 59)

\* the three rows the call may create: 1 day before, 1 hour before, at due time
MilestoneRows(milestoneId, goalId, due, milestoneTitle) ==
    <<Planned(setDate(due, getDate(due) - 1),
              Text("Milestone Due Tomorrow: ", <<milestoneTitle>>),
              Text("Your milestone is due tomorrow.", <<milestoneTitle>>),
              MilestoneSchedule(setDate(due, getDate(due) - 1), milestoneId, goalId)),
      Planned(setHours(due, getHours(due) - 1, getMinutes(due)),
              Text("Milestone Due in 1 Hour: ", <<milestoneTitle>>),
              Text("Your milestone is due in 1 hour.", <<milestoneTitle>>),
              MilestoneSchedule(setHours(due, getHours(due) - 1, getMinutes(due)),
                                milestoneId, goalId)),
      Planned(due, Text("Milestone Due Now: ", <<milestoneTitle>>),
              Text("Your milestone is due now.", <<milestoneTitle>>),
              MilestoneSchedule(due, milestoneId, goalId))>>

\* the rows whose instant passes the tests of the function, in creation order
RowsToCreate(rows, due, t) ==
    IF due <= t THEN <<>>
    ELSE (IF rows[1].time > t /\ rows[1].time < due THEN <<rows[1]>> ELSE <<>>)
         \o (IF rows[2].time > t /\ rows[2].time < due THEN <<rows[2]>> ELSE <<>>)
         \o <<rows[3]>>

MilestonePlan(milestoneId, goalId, due, milestoneTitle, t) ==
    RowsToCreate(MilestoneRows(milestoneId, goalId, due, milestoneTitle), due, t)

\* { targetType: 'GOAL', userId, note: { contains: milestoneTitle } }
IsMilestoneReminder(r, userId, milestoneTitle) ==
    r.targetType = "GOAL" /\ r.userId = userId /\ TextContains(r.note, milestoneTitle)

-----------------------------------------------------------------------------
(* notificationScheduler.ts: the task, goal and milestone schedulers when
   operations of the store and of the queue fail *)

\* One call of a scheduler: deleteMany of the stale rows, the creates of the
\* plan, the "Schedule all reminders" loop with its compensating deletes, all
\* inside the try / catch of the whole function.
ScheduleBatchUnder(faults, guarded, op, stale, plan, userId, targetType, targetId, target, type, title, args, due) ==
    /\ calls < MaxCalls
    /\ \E created \in {IF faults.deleteMany THEN {} ELSE BatchCreated(plan, faults, guarded)} :
       \E enqueued \in {IF faults.deleteMany THEN {}
                        ELSE BatchEnqueued(plan, faults, guarded, now)} :
       \E compensated \in {BatchCompensated(created, enqueued,
                                             LoopReached(plan, faults, guarded), faults)} :
       \E raised \in {BatchRaised(plan, faults, guarded)} :
           /\ reminders' =
                 (IF faults.deleteMany THEN reminders ELSE reminders \ stale)
                 \cup {r \in BatchRows(plan, userId, targetType, targetId, calls + 1) :
                          (r.id - nextId + 1) \in created \ compensated}
           /\ jobs' = jobs \cup {ReminderJob(nextId + Len(plan) + i - 1, nextId + i - 1,
                                             userId, type, plan[i].time, now) :
                                     i \in enqueued}
           /\ nextId' = nextId + 2 * Len(plan)
           /\ lastCall' =
                 [CallRecord(op, userId, target, title, args, due,
                             IF faults.deleteMany THEN {} ELSE {r.id : r \in stale},
                             {nextId + i - 1 : i \in created},
                             [i \in 1..Len(plan) |-> plan[i].time],
                             {nextId + Len(plan) + i - 1 : i \in enqueued})
                    EXCEPT !.faults = faults, !.raised = raised,
                           !.threw = OuterCatch(raised)]
    /\ calls' = calls + 1
    /\ UNCHANGED <<inflight, milestones, now, alarms, notifications, routines, njobs, pushes, settings, pushAvailable,
                   redelivered, lastFire>>

\* every create of the task scheduler has a try / catch of its own
scheduleTaskDueDateNotificationsUnder(faults, taskId, userId, dueDate, taskTitle, dueTime) ==
    ScheduleBatchUnder(faults, TRUE, "task",
        {r \in reminders : IsTaskReminder(r, taskId, userId)},
        TaskPlan(TaskDueDateTime(dueDate, dueTime), taskTitle, now),
        userId, "TASK", taskId, taskId, "DUE_DATE_REMINDER", taskTitle,
        [dueDate |-> dueDate, dueTime |-> dueTime], TaskDueDateTime(dueDate, dueTime))

\* the creates of the goal and milestone schedulers have none
scheduleGoalTargetDateNotificationsUnder(faults, goalId, userId, targetDate, goalTitle) ==
    ScheduleBatchUnder(faults, FALSE, "goal",
        {r \in reminders : IsGoalReminder(r, userId, goalTitle)},
        GoalPlan(goalId, targetDate, goalTitle, now),
        userId, "GOAL", 0, goalId, "GOAL_REMINDER", goalTitle,
        [targetDate |-> targetDate], targetDate)

scheduleMilestoneDueDateNotificationsUnder(faults, milestoneId, goalId, userId, dueDate, milestoneTitle) ==
    ScheduleBatchUnder(faults, FALSE, "milestone",
        {r \in reminders : IsMilestoneReminder(r, userId, milestoneTitle)},
        MilestonePlan(milestoneId, goalId, MilestoneDueDateTime(dueDate), milestoneTitle, now),
        userId, "GOAL", 0, milestoneId, "GOAL_REMINDER", milestoneTitle,
        [dueDate |-> dueDate, goalId |-> goalId], MilestoneDueDateTime(dueDate))

\* the failures tried: one operation, an enqueue together with its compensating
\* delete, a create and a later enqueue, two enqueues
FaultCases ==
    {NoFaults, [NoFaults EXCEPT !.deleteMany = TRUE]}
    \cup {[NoFaults EXCEPT !.create = {i}] : i \in 1..3}
    \cup {[NoFaults EXCEPT !.enqueue = {i}] : i \in 1..3}
    \cup {[NoFaults EXCEPT !.enqueue = {i}, !.delete = {i}] : i \in 1..3}
    \cup {[NoFaults EXCEPT !.create = {1}, !.enqueue = {3}],
          [NoFaults EXCEPT !.enqueue = {1, 2}]}

\* the due / target date, as minutes from the time of the call
FaultyInputs == {0 - 30, 61, 9 * 24 * 60}

TaskCallUnder ==
    \E faults \in FaultCases, in \in FaultyInputs :
        scheduleTaskDueDateNotificationsUnder(faults, 101, "u1", now + in, <<"X">>,
                                              ClockTimeOf(now + in))
GoalCallUnder ==
    \E faults \in FaultCases, in \in FaultyInputs :
        scheduleGoalTargetDateNotificationsUnder(faults, 201, "u1", now + in, <<"X">>)
MilestoneCallUnder ==
    \E faults \in FaultCases, in \in FaultyInputs :
        scheduleMilestoneDueDateNotificationsUnder(faults, 301, 201, "u1", now + in, <<"Q">>)

InitFaults ==
    /\ now = MakeDate(2024, 0, 10, 9, 0)
    /\ settings = DefaultSettings
    /\ pushAvailable = TRUE
    /\ InitStores

NextFaults == TaskCallUnder \/ GoalCallUnder \/ MilestoneCallUnder

SpecFaults == InitFaults /\ [][NextFaults]_vars

-----------------------------------------------------------------------------
(* notificationScheduler.ts: routines, their task reminders and derived alarms *)

\* The stores and queues the routine schedulers read and write, as one value, so
\* that a scheduler can be applied to the result of another.
Store ==
    [reminders |-> reminders, alarms |-> alarms, notifications |-> notifications,
     jobs |-> jobs, njobs |-> njobs, nextId |-> nextId]

\* the remainder operator of JavaScript takes the sign of the dividend
JsRem(a, b) == IF a >= 0 THEN a % b ELSE 0 - ((0 - a) % b)

\* task.reminderTime: absent, "HH:mm", "-<n>min" or "-<n>hour"
NoReminderTime == [kind |-> "none", n |-> 0, time |-> NoTime]
AbsoluteTime(time) == [kind |-> "abs", n |-> 0, time |-> time]
MinutesBefore(n) == [kind |-> "min", n |-> n, time |-> NoTime]

\* routine.reminderBefore "<n>h", "<n>d", "<n>w"
Before(value, unit) == [value |-> value, unit |-> unit]
\* reminderBefore.match(/^(\d+)([hdw])$/)
BeforeMatches(reminderBefore) == reminderBefore.unit \in {"h", "d", "w"}

\* routine.schedule { time?, days?, day? }
RoutineSchedule(time, days, day) == [time |-> time, days |-> days, day |-> day]
\* (schedule.time || '00:00').split(':').map(Number)
TimeOrMidnight(schedule) == IF schedule.time # NoTime THEN schedule.time ELSE HHmm(0, 0)

\* the notification time of a task: the routine time adjusted by reminderTime
NotificationTime(time, reminderTime) ==
    IF reminderTime.kind = "min" THEN
        LET totalMinutes == time[1] * MinPerHour + time[2] - reminderTime.n
            hours == totalMinutes \div MinPerHour
        IN  HHmm(IF hours < 0 THEN hours + 24 ELSE hours, JsRem(totalMinutes, MinPerHour))
    ELSE IF reminderTime.kind = "hour" THEN
        LET hours == time[1] - reminderTime.n
        IN  HHmm(IF hours < 0 THEN hours + 24 ELSE hours, time[2])
    ELSE IF reminderTime.kind = "abs" THEN reminderTime.time
    ELSE time

\* the next occurrence the routine schedulers compute (no clamping of the day of
\* the month; WEEKLY needs a non-empty list of days; YEARLY gives none)
RoutineNextOccurrence(frequency, schedule, hh, mm, t) ==
    IF frequency = "DAILY" THEN
        AddDaysIfPassed(setHours(t, hh, mm), 1, t)
    ELSE IF frequency = "WEEKLY" /\ Len(schedule.days) > 0 THEN
        Soonest({WeeklyCandidate(schedule.days[i], hh, mm, t) : i \in 1..Len(schedule.days)})
    ELSE IF frequency = "MONTHLY" /\ schedule.day # 0 THEN
        LET next == setHours(setDate(t, schedule.day), hh, mm)
        IN  IF next <= t THEN setMonth(next, getMonth(next) + 1) ELSE next
    ELSE NoDate

\* recurrenceRule of an alarm: FREQ=DAILY, FREQ=WEEKLY;BYDAY=..., FREQ=MONTHLY;
\* BYMONTHDAY=..., FREQ=YEARLY or null
NoRule == [freq |-> "none", by |-> <<>>]
RecurrenceRule(frequency, schedule) ==
    IF frequency = "DAILY" THEN [freq |-> "DAILY", by |-> <<>>]
    ELSE IF frequency = "WEEKLY" /\ Len(schedule.days) > 0
        THEN [freq |-> "WEEKLY", by |-> schedule.days]
    ELSE IF frequency = "MONTHLY" /\ schedule.day # 0
        THEN [freq |-> "MONTHLY", by |-> <<schedule.day>>]
    ELSE IF frequency = "YEARLY" THEN [freq |-> "YEARLY", by |-> <<>>]
    ELSE NoRule

\* An Alarm row. `routineId` and `call` are bookkeeping of the model: the routine
\* the alarm was derived from and the call that inserted it.
Alarm(id, userId, title, time, timezone, recurrenceRule, routineId, call) ==
    [id |-> id, userId |-> userId, title |-> title, time |-> time, timezone |-> timezone,
     recurrenceRule |-> recurrenceRule, enabled |-> TRUE, routineId |-> routineId,
     call |-> call]

\* A Notification row of an alarm and its job in the 'notifications' queue
AlarmNotification(id, alarm, scheduledFor) ==
    [id |-> id, userId |-> alarm.userId, type |-> "IN_APP",
     payload |-> [title |-> Text("Alarm: ", <<alarm.title>>), alarmId |-> alarm.id,
                  notificationType |-> "ALARM_TRIGGER"],
     scheduledFor |-> scheduledFor, status |-> "PENDING"]
NotificationJob(jid, n, t) ==
    [jid |-> jid, notificationId |-> n.id, userId |-> n.userId,
     type |-> n.payload.notificationType, fireAt |-> t + (n.scheduledFor - t)]

\* cancelAlarmPushNotifications
cancelAlarmPushNotifications(st, alarmId, userId) ==
    [st EXCEPT !.notifications =
        {n \in @ : ~(n.userId = userId /\ n.payload.alarmId = alarmId)}]

\* the loop that moves a recurring alarm's time past the clock
RECURSIVE AlarmRollover(_, _, _)
AlarmRollover(time, freq, t) ==
    IF time > t THEN time
    ELSE AlarmRollover(IF freq = "DAILY" THEN setDate(time, getDate(time) + 1)
                       ELSE IF freq = "WEEKLY" THEN setDate(time, getDate(time) + 7)
                       ELSE setMonth(time, getMonth(time) + 1),
                       freq, t)

\* scheduleAlarmPushNotification of an enabled alarm with a valid time. An
\* alarm instant in the minute of the clock is either refused by the one-second
\* tolerance test or by scheduleNotification (delay <= 0), whose failure removes
\* the notification again: in both cases nothing is left.
scheduleAlarmPushNotification(st, alarm, t) ==
    LET rolls == alarm.recurrenceRule # NoRule /\ alarm.time <= t
                 /\ alarm.recurrenceRule.freq \in {"DAILY", "WEEKLY", "MONTHLY"}
        scheduledAlarmTime ==
            IF rolls THEN AlarmRollover(alarm.time, alarm.recurrenceRule.freq, t)
            ELSE alarm.time
        cancelled == cancelAlarmPushNotifications(st, alarm.id, alarm.userId)
        notification == AlarmNotification(st.nextId, alarm, scheduledAlarmTime)
    IN  IF ~alarm.enabled \/ scheduledAlarmTime <= t THEN cancelled
        ELSE [cancelled EXCEPT
                !.notifications = @ \cup {notification},
                !.njobs = @ \cup {NotificationJob(st.nextId + 1, notification, t)},
                !.nextId = @ + 2]

\* { userId, title: { contains: `Routine: ${routineTitle}` } }
IsRoutineAlarm(a, userId, routineTitle) ==
    a.userId = userId /\ TextContainsLabel(a.title, "Routine: ", routineTitle)

\* { targetType: 'CUSTOM', userId, note: { contains: taskTitle } }
IsCustomReminderNoting(r, userId, taskTitle) ==
    r.targetType = "CUSTOM" /\ r.userId = userId /\ TextContains(r.note, taskTitle)

\* the alarm time handed to createAlarmForRoutineReminder: from reminderBefore
\* if it is set and well formed, else the task's reminderTime, else the routine time
AlarmTimeForReminder(schedule, reminderTime, reminderBefore) ==
    LET time == TimeOrMidnight(schedule)
        alarmHours == IF reminderBefore.unit = "h"
                      THEN (IF time[1] - reminderBefore.value < 0
                            THEN time[1] - reminderBefore.value + 24
                            ELSE time[1] - reminderBefore.value)
                      ELSE time[1]
    IN  IF reminderBefore # NoBefore /\ BeforeMatches(reminderBefore)
        THEN AbsoluteTime(HHmm(alarmHours, time[2]))
        ELSE IF reminderTime # NoReminderTime THEN reminderTime
        ELSE AbsoluteTime(time)

\* the time of the derived alarm
RoutineAlarmTime(nextOccurrence, schedule, reminderTime, reminderBefore) ==
    LET clock == IF reminderTime.kind = "abs" THEN reminderTime.time
                 ELSE TimeOrMidnight(schedule)
        alarmTime == setHours(nextOccurrence, clock[1], clock[2])
        routineTime == TimeOrMidnight(schedule)
        routineTimeOnSameDay == setHours(nextOccurrence, routineTime[1], routineTime[2])
    IN  IF reminderBefore = NoBefore \/ ~BeforeMatches(reminderBefore) THEN alarmTime
        ELSE IF reminderBefore.unit = "d"
            THEN setDate(alarmTime, getDate(alarmTime) - reminderBefore.value)
        ELSE IF reminderBefore.unit = "w"
            THEN setDate(alarmTime, getDate(alarmTime) - reminderBefore.value * 7)
        ELSE IF alarmTime < routineTimeOnSameDay
            THEN setDate(alarmTime, getDate(alarmTime) - 1)
        ELSE alarmTime

\* createAlarmForRoutineReminder: replace the routine's alarms by a new one,
\* schedule its push and write the alarm id into the reminders that note the task
createAlarmForRoutineReminder(st, routineId, taskId, userId, routineTitle, taskTitle, nextOccurrence, frequency, schedule, timezone, reminderTime, reminderSchedule, reminderBefore, t, callNo) ==
    LET alarm == Alarm(st.nextId, userId, Text("Routine: ", <<routineTitle>>),
                       RoutineAlarmTime(nextOccurrence, schedule, reminderTime, reminderBefore),
                       timezone, RecurrenceRule(frequency, schedule), routineId, callNo)
        created == [st EXCEPT
                      !.alarms = {a \in @ : ~IsRoutineAlarm(a, userId, routineTitle)}
                                 \cup {alarm},
                      !.nextId = @ + 1]
        pushed == scheduleAlarmPushNotification(created, alarm, t)
    IN  [pushed EXCEPT !.reminders =
            {IF IsCustomReminderNoting(r, userId, taskTitle)
             THEN [r EXCEPT !.schedule = [reminderSchedule EXCEPT !.alarmId = alarm.id]]
             ELSE r : r \in @}]

\* (mutant) a yearly routine is scheduled like a daily one
RoutineTaskOccurrence_YearlyAsDaily(frequency, schedule, reminderTime, t) ==
    RoutineNextOccurrence(IF frequency = "YEARLY" THEN "DAILY" ELSE frequency, schedule,
                          NotificationTime(schedule.time, reminderTime)[1],
                          NotificationTime(schedule.time, reminderTime)[2], t)

\* the occurrence scheduleRoutineTaskNotifications computes for a task
RoutineTaskOccurrence(frequency, schedule, reminderTime, t) ==
    IF frequency = "YEARLY" THEN NoDate
    ELSE RoutineNextOccurrence(frequency, schedule,
                               NotificationTime(schedule.time, reminderTime)[1],
                               NotificationTime(schedule.time, reminderTime)[2], t)

\* scheduleRoutineTaskNotifications
scheduleRoutineTaskNotifications(st, routineId, userId, routineTitle, frequency, schedule, timezone, taskId, taskTitle, reminderTime, reminderBefore, t, callNo) ==
    LET cleared == [st EXCEPT !.reminders =
                       {r \in @ : ~IsCustomReminderNoting(r, userId, taskTitle)}]
        notificationTime == NotificationTime(schedule.time, reminderTime)
        nextOccurrence == RoutineTaskOccurrence(frequency, schedule, reminderTime, t)
        fullReminderSchedule ==
            [ScheduleOf(NoDate, frequency, notificationTime,
                        IF frequency = "WEEKLY" THEN schedule.days ELSE <<>>,
                        IF frequency = "MONTHLY" THEN schedule.day ELSE 0,
                        timezone)
                EXCEPT !.routineId = routineId, !.taskId = taskId]
        reminder == Reminder(st.nextId, userId, "CUSTOM", 0,
                             Text("Routine: ", <<routineTitle>>),
                             Text("Time to complete", <<taskTitle>>),
                             fullReminderSchedule, callNo)
        scheduled == [cleared EXCEPT
                        !.reminders = @ \cup {reminder},
                        !.jobs = @ \cup {ReminderJob(st.nextId + 1, reminder.id, userId,
                                                     "ROUTINE_REMINDER", nextOccurrence, t)},
                        !.nextId = @ + 2]
    IN  IF schedule.time = NoTime THEN cleared
        ELSE IF nextOccurrence = NoDate \/ nextOccurrence <= t THEN cleared
        ELSE createAlarmForRoutineReminder(scheduled, routineId, taskId, userId, routineTitle,
                 taskTitle, nextOccurrence, frequency, schedule, timezone,
                 AlarmTimeForReminder(schedule, reminderTime, reminderBefore),
                 fullReminderSchedule, reminderBefore, t, callNo)

\* cancelRoutineTaskNotifications: the CUSTOM reminders of the user whose
\* schedule.taskId is the task
cancelRoutineTaskNotifications(st, taskId, userId) ==
    [st EXCEPT !.reminders =
        {r \in @ : ~(r.targetType = "CUSTOM" /\ r.userId = userId
                     /\ r.schedule.taskId = taskId)}]

RECURSIVE CancelTasks(_, _, _)
CancelTasks(st, tasks, userId) ==
    IF tasks = <<>> THEN st
    ELSE CancelTasks(cancelRoutineTaskNotifications(st, Head(tasks).id, userId),
                     Tail(tasks), userId)

\* cancelRoutineNotifications, reading the routine from the rows rs
cancelRoutineNotifications(st, rs, routineId, userId) ==
    IF ~\E routine \in rs : routine.id = routineId THEN st
    ELSE LET routine == CHOOSE x \in rs : x.id = routineId
         IN  CancelTasks([st EXCEPT !.alarms =
                             {a \in @ : ~IsRoutineAlarm(a, userId, routine.title)}],
                         routine.routineTasks, userId)

\* the instant of the routine reminder: reminderBefore before the next occurrence
RoutineReminderTime(nextOccurrence, reminderBefore) ==
    IF reminderBefore.unit = "h"
    THEN setHours(nextOccurrence, getHours(nextOccurrence) - reminderBefore.value,
                  getMinutes(nextOccurrence))
    ELSE IF reminderBefore.unit = "d"
    THEN setDate(nextOccurrence, getDate(nextOccurrence) - reminderBefore.value)
    ELSE setDate(nextOccurrence, getDate(nextOccurrence) - reminderBefore.value * 7)

\* { targetType: 'CUSTOM', userId, title: { contains: `Routine Reminder: ${routineTitle}` } }
IsRoutineReminder(r, userId, routineTitle) ==
    r.targetType = "CUSTOM" /\ r.userId = userId
    /\ TextContainsLabel(r.title, "Routine Reminder: ", routineTitle)

\* scheduleRoutineReminderNotification
scheduleRoutineReminderNotification(st, routineId, userId, routineTitle, frequency, schedule, timezone, reminderBefore, nextOccurrence, t, callNo) ==
    LET reminderTime == RoutineReminderTime(nextOccurrence, reminderBefore)
        reminderSchedule ==
            [ScheduleOf(NoDate, frequency, schedule.time,
                        IF frequency = "WEEKLY" THEN schedule.days ELSE <<>>,
                        IF frequency = "MONTHLY" THEN schedule.day ELSE 0,
                        timezone)
                EXCEPT !.routineId = routineId, !.reminderBefore = reminderBefore]
        reminder == Reminder(st.nextId, userId, "CUSTOM", 0,
                             Text("Routine Reminder: ", <<routineTitle>>),
                             Text("Your routine is coming up soon", <<routineTitle>>),
                             reminderSchedule, callNo)
    IN  IF ~BeforeMatches(reminderBefore) THEN st
        ELSE IF reminderTime <= t THEN st
        ELSE [st EXCEPT
                !.reminders = {r \in @ : ~IsRoutineReminder(r, userId, routineTitle)}
                              \cup {reminder},
                !.jobs = @ \cup {ReminderJob(st.nextId + 1, reminder.id, userId,
                                             "ROUTINE_REMINDER", reminderTime, t)},
                !.nextId = @ + 2]

RECURSIVE ScheduleTasks(_, _, _, _, _)
ScheduleTasks(st, routine, tasks, t, callNo) ==
    IF tasks = <<>> THEN st
    ELSE ScheduleTasks(
            scheduleRoutineTaskNotifications(st, routine.id, routine.userId, routine.title,
                routine.frequency, routine.schedule, routine.timezone, Head(tasks).id,
                Head(tasks).title, Head(tasks).reminderTime, routine.reminderBefore, t, callNo),
            routine, Tail(tasks), t, callNo)

\* scheduleRoutineNotifications, reading the routine from the rows rs
scheduleRoutineNotifications(st, rs, routineId, t, callNo) ==
    IF ~\E routine \in rs : routine.id = routineId /\ routine.enabled THEN st
    ELSE LET routine == CHOOSE x \in rs : x.id = routineId
             time == TimeOrMidnight(routine.schedule)
             nextOccurrence ==
                 RoutineNextOccurrence(routine.frequency, routine.schedule, time[1], time[2], t)
             reminded ==
                 IF routine.reminderBefore # NoBefore /\ nextOccurrence # NoDate
                 THEN scheduleRoutineReminderNotification(st, routine.id, routine.userId,
                          routine.title, routine.frequency, routine.schedule, routine.timezone,
                          routine.reminderBefore, nextOccurrence, t, callNo)
                 ELSE st
         IN  ScheduleTasks(reminded, routine, routine.routineTasks, t, callNo)

-----------------------------------------------------------------------------
(* routineService: the rows of the routine store. Its code is not among the
   sources at hand; the operations below follow the data model of the
   specification: a routine (frequency, schedule, timezone, reminderBefore?)
   with its tasks (title, reminderTime?), created enabled, updated field by
   field, deleted together with its tasks. *)

RoutineRow(id, userId, data) ==
    [id |-> id, userId |-> userId, title |-> data.title, frequency |-> data.frequency,
     schedule |-> data.schedule, timezone |-> data.timezone, enabled |-> TRUE,
     reminderBefore |-> data.reminderBefore, routineTasks |-> <<>>]
RoutineTaskRow(id, data) ==
    [id |-> id, title |-> data.title, reminderTime |-> data.reminderTime]

createRoutine(rs, id, userId, data) == rs \cup {RoutineRow(id, userId, data)}
updateRoutine(rs, routineId, userId, data) ==
    {IF x.id = routineId /\ x.userId = userId THEN data @@ x ELSE x : x \in rs}
deleteRoutine(rs, routineId, userId) ==
    {x \in rs : ~(x.id = routineId /\ x.userId = userId)}
addTaskToRoutine(rs, routineId, userId, task) ==
    {IF x.id = routineId /\ x.userId = userId
     THEN [x EXCEPT !.routineTasks = Append(@, task)] ELSE x : x \in rs}
getRoutineById(rs, routineId, userId) ==
    {x \in rs : x.id = routineId /\ x.userId = userId}

-----------------------------------------------------------------------------
(* routes/routine.ts *)

MaxRouteCalls == 3     \* requests to the routine routes per behaviour

\* the stores after a request
Commit(st) ==
    /\ reminders' = st.reminders /\ alarms' = st.alarms
    /\ notifications' = st.notifications /\ jobs' = st.jobs /\ njobs' = st.njobs
    /\ nextId' = st.nextId

\* what a request did (bookkeeping of the model)
RouteRecord(op, userId, routine, args, st) ==
    CallRecord(op, userId, routine.id, routine.title, args, NoDate,
               ReminderIds \ {r.id : r \in st.reminders},
               {r.id : r \in st.reminders} \ ReminderIds,
               <<>>, {j.jid : j \in st.jobs \ jobs})

\* POST /routines
PostRoutine(userId, data) ==
    /\ calls < MaxRouteCalls
    /\ routines = {}
    /\ LET rs == createRoutine(routines, nextId, userId, data)
           routine == RoutineRow(nextId, userId, data)
       IN  \E st \in {scheduleRoutineNotifications([Store EXCEPT !.nextId = @ + 1], rs,
                                                    routine.id, now, calls + 1)} :
           /\ routines' = rs
           /\ Commit(st)
           /\ lastCall' = RouteRecord("postRoutine", userId, routine,
                                      [routine |-> routine], st)
    /\ calls' = calls + 1
    /\ UNCHANGED <<inflight, milestones, now, pushes, settings, pushAvailable, redelivered, lastFire>>

\* POST /routines/:routineId/tasks
PostRoutineTask(routine, data) ==
    /\ calls < MaxRouteCalls
    /\ routine \in routines
    /\ LET task == RoutineTaskRow(nextId, data)
           rs == addTaskToRoutine(routines, routine.id, routine.userId, task)
           base == [Store EXCEPT !.nextId = @ + 1]
       IN  \E st \in {IF \E x \in getRoutineById(rs, routine.id, routine.userId) : x.enabled
                       THEN scheduleRoutineTaskNotifications(base, routine.id, routine.userId,
                                routine.title, routine.frequency, routine.schedule,
                                routine.timezone, task.id, task.title, task.reminderTime,
                                NoBefore, now, calls + 1)
                       ELSE base} :
           /\ routines' = rs
           /\ Commit(st)
           /\ lastCall' = RouteRecord("postRoutineTask", routine.userId, routine,
                                      [routine |-> routine, task |-> task], st)
    /\ calls' = calls + 1
    /\ UNCHANGED <<inflight, milestones, now, pushes, settings, pushAvailable, redelivered, lastFire>>

\* PUT /routines/:routineId
PutRoutine(routine, data) ==
    /\ calls < MaxRouteCalls
    /\ routine \in routines
    /\ LET rs == updateRoutine(routines, routine.id, routine.userId, data)
           updated == data @@ routine
           cancelled == cancelRoutineNotifications(Store, rs, routine.id, routine.userId)
       IN  \E st \in {IF updated.enabled
                       THEN scheduleRoutineNotifications(cancelled, rs, routine.id, now,
                                                         calls + 1)
                       ELSE cancelled} :
           /\ routines' = rs
           /\ Commit(st)
           /\ lastCall' = RouteRecord("putRoutine", routine.userId, updated,
                                      [routine |-> updated, before |-> routine], st)
    /\ calls' = calls + 1
    /\ UNCHANGED <<inflight, milestones, now, pushes, settings, pushAvailable, redelivered, lastFire>>

\* DELETE /routines/:routineId
DeleteRoutine(routine) ==
    /\ calls < MaxRouteCalls
    /\ routine \in routines
    /\ LET rs == deleteRoutine(routines, routine.id, routine.userId)
           st == cancelRoutineNotifications(Store, rs, routine.id, routine.userId)
       IN  /\ routines' = rs
           /\ Commit(st)
           /\ lastCall' = RouteRecord("deleteRoutine", routine.userId, routine,
                                      [routine |-> routine], st)
    /\ calls' = calls + 1
    /\ UNCHANGED <<inflight, milestones, now, pushes, settings, pushAvailable, redelivered, lastFire>>

-----------------------------------------------------------------------------
(* The routine service: the owner of a routine creates it, adds tasks, edits,
   disables and deletes it; the worker fires the jobs as they become due. *)

RoutineOwner == "u1"
\* bodies of POST /routines
RoutineInputs ==
    {[title |-> <<"X">>, frequency |-> "DAILY", timezone |-> "UTC",
      schedule |-> RoutineSchedule(HHmm(9, 30), <<>>, 0), reminderBefore |-> Before(1, "h")],
     [title |-> <<"X">>, frequency |-> "WEEKLY", timezone |-> "Africa/Cairo",
      schedule |-> RoutineSchedule(HHmm(0, 10), <<4, 5>>, 0), reminderBefore |-> Before(1, "d")],
     [title |-> <<"X", "Z">>, frequency |-> "MONTHLY", timezone |-> "UTC",
      schedule |-> RoutineSchedule(HHmm(9, 0), <<>>, 31), reminderBefore |-> NoBefore],
     [title |-> <<"X">>, frequency |-> "DAILY", timezone |-> "UTC",
      schedule |-> RoutineSchedule(NoTime, <<>>, 0), reminderBefore |-> Before(1, "h")]}
\* bodies of POST /routines/:routineId/tasks
RoutineTaskInputs ==
    {[title |-> <<"Q">>, reminderTime |-> NoReminderTime],
     [title |-> <<"Q">>, reminderTime |-> MinutesBefore(15)],
     [title |-> <<"X">>, reminderTime |-> AbsoluteTime(HHmm(8, 0))]}
\* bodies of PUT /routines/:routineId
RoutineUpdates ==
    {[enabled |-> FALSE], [enabled |-> TRUE], [title |-> <<"Q">>]}

Init ==
    /\ now = MakeDate(2024, 0, 30, 22, 20)
    /\ settings = DefaultSettings
    /\ pushAvailable = TRUE
    /\ InitStores

RoutineRoutes ==
    \/ \E data \in RoutineInputs : PostRoutine(RoutineOwner, data)
    \/ \E routine \in routines, data \in RoutineTaskInputs : PostRoutineTask(routine, data)
    \/ \E routine \in routines, data \in RoutineUpdates : PutRoutine(routine, data)
    \/ \E routine \in routines : DeleteRoutine(routine)

\* the worker of the 'reminders' queue takes a due job and completes it
Worker == \E j \in jobs : ProcessReminderJob(j, TRUE)

Next == RoutineRoutes \/ Worker \/ Tick

Spec == Init /\ [][Next]_vars

\* The same with a queue that delivers a job again after the worker has lost it.
Redelivery == \E j \in jobs : ProcessReminderJob(j, FALSE)

RoutineCreation ==
    \/ \E data \in RoutineInputs : PostRoutine(RoutineOwner, data)
    \/ \E routine \in routines, data \in RoutineTaskInputs : PostRoutineTask(routine, data)

NextAtLeastOnce == RoutineCreation \/ Worker \/ Redelivery \/ Tick

SpecAtLeastOnce == Init /\ [][NextAtLeastOnce]_vars

\* the create / update task routes with the worker
OneShotInputs == {<<0 - 90, TRUE>>, <<61, TRUE>>, <<24 * 60 + 1, FALSE>>}
TaskRouteFired ==
    \E in \in OneShotInputs :
        scheduleTaskDueDateNotifications(101, "u1", now + in[1], <<"X">>,
            IF in[2] THEN ClockTimeOf(now + in[1]) ELSE NoTime)

NextOneShot == TaskRouteFired \/ Worker \/ Redelivery \/ Tick

InitOneShot ==
    /\ now = MakeDate(2024, 0, 30, 9, 0)
    /\ settings = DefaultSettings
    /\ pushAvailable \in BOOLEAN
    /\ InitStores

SpecOneShot == InitOneShot /\ [][NextOneShot]_vars

-----------------------------------------------------------------------------
(* queueService.ts: scheduleReminder and scheduleNotification called directly *)

\* scheduleNotification throws when delay = scheduledFor - Date.now() <= 0
scheduleNotificationAccepts(scheduledFor, t) == scheduledFor - t > 0

\* scheduleReminder(reminderId, userId, scheduledFor, type)
scheduleReminder(reminderId, userId, scheduledFor, type) ==
    /\ calls < MaxCalls
    /\ jobs' = IF scheduleReminderAccepts(scheduledFor, now)
               THEN jobs \cup {ReminderJob(nextId, reminderId, userId, type, scheduledFor, now)}
               ELSE jobs
    /\ nextId' = IF scheduleReminderAccepts(scheduledFor, now) THEN nextId + 1 ELSE nextId
    /\ lastCall' = [CallRecord("scheduleReminder", userId, reminderId, <<>>, [type |-> type],
                               scheduledFor, {}, {}, <<>>,
                               IF scheduleReminderAccepts(scheduledFor, now)
                               THEN {nextId} ELSE {})
                      EXCEPT !.threw = ~scheduleReminderAccepts(scheduledFor, now)]
    /\ calls' = calls + 1
    /\ UNCHANGED <<inflight, milestones, now, reminders, alarms, notifications, routines, njobs, pushes, settings,
                   pushAvailable, redelivered, lastFire>>

\* scheduleNotification(notificationId, userId, scheduledFor, type, payload)
scheduleNotification(notificationId, userId, scheduledFor, type) ==
    /\ calls < MaxCalls
    /\ njobs' = IF scheduleNotificationAccepts(scheduledFor, now)
                THEN njobs \cup {NotificationJob(nextId,
                                     [id |-> notificationId, userId |-> userId,
                                      payload |-> [notificationType |-> type],
                                      scheduledFor |-> scheduledFor], now)}
                ELSE njobs
    /\ nextId' = IF scheduleNotificationAccepts(scheduledFor, now) THEN nextId + 1 ELSE nextId
    /\ lastCall' = [CallRecord("scheduleNotification", userId, notificationId, <<>>,
                               [type |-> type], scheduledFor, {}, {}, <<>>,
                               IF scheduleNotificationAccepts(scheduledFor, now)
                               THEN {nextId} ELSE {})
                      EXCEPT !.threw = ~scheduleNotificationAccepts(scheduledFor, now)]
    /\ calls' = calls + 1
    /\ UNCHANGED <<inflight, milestones, now, reminders, alarms, notifications, routines, jobs, pushes, settings,
                   pushAvailable, redelivered, lastFire>>

\* the fire time, as minutes from the time of the call
DispatchInputs == {0 - 24 * 60, 0 - 1, 0, 1, 90}

ReminderCall ==
    \E reminderId \in {1, 2}, in \in DispatchInputs, type \in {"TASK_REMINDER", "time"} :
        scheduleReminder(reminderId, "u1", now + in, type)
NotificationCall ==
    \E notificationId \in {1, 2}, in \in DispatchInputs :
        scheduleNotification(notificationId, "u1", now + in, "ALARM_TRIGGER")

NextDispatch == ReminderCall \/ NotificationCall

SpecDispatch == InitFaults /\ [][NextDispatch]_vars

-----------------------------------------------------------------------------
(* notificationScheduler.ts: the routine schedulers when operations of the
   store and of the queue fail. A scheduler gives the stores it leaves, whether
   an error reached the catch of its whole body and whether its caller saw one. *)

Outcome(st, raised) == [st |-> st, raised |-> raised, threw |-> OuterCatch(raised)]

\* the Reminder row scheduleRoutineTaskNotifications inserts
RoutineTaskReminder(id, routineId, userId, routineTitle, frequency, schedule, timezone, taskId, taskTitle, reminderTime, callNo) ==
    Reminder(id, userId, "CUSTOM", 0, Text("Routine: ", <<routineTitle>>),
             Text("Time to complete", <<taskTitle>>),
             [ScheduleOf(NoDate, frequency, NotificationTime(schedule.time, reminderTime),
                         IF frequency = "WEEKLY" THEN schedule.days ELSE <<>>,
                         IF frequency = "MONTHLY" THEN schedule.day ELSE 0,
                         timezone)
                 EXCEPT !.routineId = routineId, !.taskId = taskId],
             callNo)

\* scheduleRoutineTaskNotifications. A failing deleteMany or create reaches the
\* catch of the whole body; a failing scheduleReminder is caught around "Schedule
\* the first reminder" and leaves the row; createAlarmForRoutineReminder throws
\* the error of prisma.alarm.create on, after it has deleted the routine's
\* alarms, and the catch around the alarm block takes it.
scheduleRoutineTaskNotificationsUnder(faults, st, routineId, userId, routineTitle, frequency, schedule, timezone, taskId, taskTitle, reminderTime, reminderBefore, t, callNo) ==
    IF faults.deleteMany THEN Outcome(st, TRUE)
    ELSE IF schedule.time = NoTime
            \/ RoutineTaskOccurrence(frequency, schedule, reminderTime, t) = NoDate
            \/ RoutineTaskOccurrence(frequency, schedule, reminderTime, t) <= t
    THEN Outcome([st EXCEPT !.reminders =
                     {r \in @ : ~IsCustomReminderNoting(r, userId, taskTitle)}], FALSE)
    ELSE IF 1 \in faults.create
    THEN Outcome([st EXCEPT !.reminders =
                     {r \in @ : ~IsCustomReminderNoting(r, userId, taskTitle)}], TRUE)
    ELSE IF 1 \in faults.enqueue
    THEN Outcome([st EXCEPT
                    !.reminders =
                        {r \in @ : ~IsCustomReminderNoting(r, userId, taskTitle)}
                        \cup {RoutineTaskReminder(st.nextId, routineId, userId, routineTitle,
                                  frequency, schedule, timezone, taskId, taskTitle,
                                  reminderTime, callNo)},
                    !.nextId = @ + 2], FALSE)
    ELSE IF faults.alarmCreate
    THEN Outcome([st EXCEPT
                    !.reminders =
                        {r \in @ : ~IsCustomReminderNoting(r, userId, taskTitle)}
                        \cup {RoutineTaskReminder(st.nextId, routineId, userId, routineTitle,
                                  frequency, schedule, timezone, taskId, taskTitle,
                                  reminderTime, callNo)},
                    !.jobs = @ \cup {ReminderJob(st.nextId + 1, st.nextId, userId,
                                         "ROUTINE_REMINDER",
                                         RoutineTaskOccurrence(frequency, schedule,
                                                               reminderTime, t), t)},
                    !.alarms = {a \in @ : ~IsRoutineAlarm(a, userId, routineTitle)},
                    !.nextId = @ + 2], FALSE)
    ELSE Outcome(scheduleRoutineTaskNotifications(st, routineId, userId, routineTitle,
                     frequency, schedule, timezone, taskId, taskTitle, reminderTime,
                     reminderBefore, t, callNo), FALSE)

\* the loop over the tasks of the routine: an error a call lets out ends the loop
RECURSIVE ScheduleTasksUnder(_, _, _, _, _, _)
ScheduleTasksUnder(faults, st, routine, tasks, t, callNo) ==
    IF tasks = <<>> THEN [st |-> st, raised |-> FALSE]
    ELSE LET done == scheduleRoutineTaskNotificationsUnder(faults, st, routine.id,
                         routine.userId, routine.title, routine.frequency, routine.schedule,
                         routine.timezone, Head(tasks).id, Head(tasks).title,
                         Head(tasks).reminderTime, routine.reminderBefore, t, callNo)
         IN  IF done.threw THEN [st |-> done.st, raised |-> TRUE]
             ELSE ScheduleTasksUnder(faults, done.st, routine, Tail(tasks), t, callNo)

\* scheduleRoutineNotifications: an error of findUnique that is no connection
\* error is thrown on by the retry loop into the catch of the whole body
scheduleRoutineNotificationsUnder(faults, st, rs, routineId, t, callNo) ==
    IF faults.findUnique THEN Outcome(st, TRUE)
    ELSE IF ~\E routine \in rs : routine.id = routineId /\ routine.enabled
    THEN Outcome(st, FALSE)
    ELSE LET routine == CHOOSE x \in rs : x.id = routineId
             time == TimeOrMidnight(routine.schedule)
             nextOccurrence ==
                 RoutineNextOccurrence(routine.frequency, routine.schedule, time[1], time[2], t)
             reminded ==
                 IF routine.reminderBefore # NoBefore /\ nextOccurrence # NoDate
                 THEN scheduleRoutineReminderNotification(st, routine.id, routine.userId,
                          routine.title, routine.frequency, routine.schedule, routine.timezone,
                          routine.reminderBefore, nextOccurrence, t, callNo)
                 ELSE st
             tasksDone == ScheduleTasksUnder(faults, reminded, routine, routine.routineTasks,
                                             t, callNo)
         IN  Outcome(tasksDone.st, tasksDone.raised)

\* scheduleRoutineTaskNotifications called for the k-th task of a routine
RoutineTaskCallUnder(faults, routine, k) ==
    /\ calls < MaxRouteCalls
    /\ routine \in routines
    /\ k \in 1..Len(routine.routineTasks)
    /\ \E out \in {scheduleRoutineTaskNotificationsUnder(faults, Store, routine.id,
                        routine.userId, routine.title, routine.frequency, routine.schedule,
                        routine.timezone, routine.routineTasks[k].id,
                        routine.routineTasks[k].title, routine.routineTasks[k].reminderTime,
                        routine.reminderBefore, now, calls + 1)} :
           /\ Commit(out.st)
           /\ lastCall' = [RouteRecord("routineTask", routine.userId, routine,
                                       [routine |-> routine, task |-> routine.routineTasks[k]],
                                       out.st)
                              EXCEPT !.faults = faults, !.raised = out.raised,
                                     !.threw = out.threw]
    /\ calls' = calls + 1
    /\ UNCHANGED <<inflight, milestones, now, routines, pushes, settings, pushAvailable, redelivered, lastFire>>

\* scheduleRoutineNotifications called for a routine
RoutineCallUnder(faults, routine) ==
    /\ calls < MaxRouteCalls
    /\ routine \in routines
    /\ \E out \in {scheduleRoutineNotificationsUnder(faults, Store, routines, routine.id, now,
                                                      calls + 1)} :
           /\ Commit(out.st)
           /\ lastCall' = [RouteRecord("routine", routine.userId, routine,
                                       [routine |-> routine], out.st)
                              EXCEPT !.faults = faults, !.raised = out.raised,
                                     !.threw = out.threw]
    /\ calls' = calls + 1
    /\ UNCHANGED <<inflight, milestones, now, routines, pushes, settings, pushAvailable, redelivered, lastFire>>

\* the failures tried in the routine schedulers: one operation each
RoutineFaultCases ==
    {NoFaults, [NoFaults EXCEPT !.findUnique = TRUE], [NoFaults EXCEPT !.deleteMany = TRUE],
     [NoFaults EXCEPT !.create = {1}], [NoFaults EXCEPT !.enqueue = {1}],
     [NoFaults EXCEPT !.alarmCreate = TRUE]}
\* and in the task, goal and milestone schedulers
BatchFaultCases ==
    {NoFaults, [NoFaults EXCEPT !.deleteMany = TRUE], [NoFaults EXCEPT !.create = {2}],
     [NoFaults EXCEPT !.enqueue = {3}, !.delete = {3}]}

\* the five schedulers, each with the operations that fail in the call
SchedulerCalls ==
    \/ \E faults \in BatchFaultCases :
          scheduleTaskDueDateNotificationsUnder(faults, 101, RoutineOwner,
              now + 9 * 24 * 60, <<"X">>, NoTime)
    \/ \E faults \in BatchFaultCases :
          scheduleGoalTargetDateNotificationsUnder(faults, 201, RoutineOwner,
              now + 9 * 24 * 60, <<"X">>)
    \/ \E faults \in BatchFaultCases :
          scheduleMilestoneDueDateNotificationsUnder(faults, 301, 201, RoutineOwner,
              now + 9 * 24 * 60, <<"Q">>)
    \/ \E faults \in RoutineFaultCases, routine \in routines, k \in 1..2 :
          RoutineTaskCallUnder(faults, routine, k)
    \/ \E faults \in RoutineFaultCases, routine \in routines :
          RoutineCallUnder(faults, routine)

NextBestEffort == RoutineCreation \/ SchedulerCalls

SpecBestEffort == Init /\ [][NextBestEffort]_vars

-----------------------------------------------------------------------------
(* Properties *)
-----------------------------------------------------------------------------
(* Properties *)

TaskRemindersOf(taskId, userId) ==
    {r \in reminders : r.targetType = "TASK" /\ r.targetId = taskId /\ r.userId = userId}
CreatedByLastCall == {r \in reminders : r.id \in lastCall.created}

\* C7: task reminders do not accumulate. In every state the store holds at most
\* 3 TASK reminders per (task, user), all inserted by one and the same call, and
\* right after a call for (task, user) that call is the one that inserted them.
C7_TaskRemindersDoNotAccumulate ==
    \A taskId \in TaskIds, userId \in Users :
        LET mine == TaskRemindersOf(taskId, userId)
        IN  /\ Cardinality(mine) <= 3
            /\ \A r1, r2 \in mine : r1.call = r2.call
            /\ (lastCall.op = "task" /\ lastCall.target = taskId /\ lastCall.userId = userId)
                   => \A r \in mine : r.call = lastCall.n

\* a second call for the same (task, user) has replaced the three reminders of the
\* first by three of its own
C7_Witness ==
    /\ lastCall.op = "task" /\ lastCall.n >= 2
    /\ Cardinality(lastCall.deleted) = 3
    /\ Cardinality(TaskRemindersOf(lastCall.target, lastCall.userId)) = 3

\* C9: for a due instant strictly in the future the call creates exactly the
\* one-shot reminders at due - 1 day and due - 1 hour (each only if later than
\* now) and at due: 3, 2 or 1 of them; past offsets are skipped, not clamped;
\* without a due time the due instant is 23:59 of the due date. Each created
\* reminder is in the store with a job due at its instant.
C9_TaskReminderInstants ==
    (lastCall.op = "task" /\ lastCall.due > lastCall.at) =>
        LET due == lastCall.due
            t == lastCall.at
            expected == {x \in {due - 24 * 60, due - 60} : x > t} \cup {due}
        IN  /\ lastCall.created \subseteq ReminderIds
            /\ {r.schedule.at : r \in CreatedByLastCall} = expected
            /\ Cardinality(lastCall.created) =
                   (IF t < due - 24 * 60 THEN 3 ELSE IF t < due - 60 THEN 2 ELSE 1)
            /\ \A r \in CreatedByLastCall :
                  /\ r.schedule.frequency = "NONE"
                  /\ r.targetType = "TASK" /\ r.targetId = lastCall.target
                  /\ \E j \in jobs : j.reminderId = r.id /\ j.fireAt = r.schedule.at
            /\ lastCall.args.dueTime = NoTime =>
                  /\ DayNumber(due) = DayNumber(lastCall.args.dueDate)
                  /\ getHours(due) = 23 /\ getMinutes(due) = 59
            /\ lastCall.args.dueTime # NoTime =>
                  /\ DayNumber(due) = DayNumber(lastCall.args.dueDate)
                  /\ HHmm(getHours(due), getMinutes(due)) = lastCall.args.dueTime

\* a call less than an hour before the 23:59 default due instant created one reminder
C9_Witness ==
    /\ lastCall.op = "task" /\ lastCall.args.dueTime = NoTime
    /\ lastCall.due > lastCall.at /\ lastCall.due - lastCall.at < 60
    /\ Cardinality(lastCall.created) = 1

\* C10: when the resolved due instant is <= now the call creates no reminder and
\* enqueues no job, and the reminders the task had before are deleted.
C10_PastDueCreatesNothing ==
    (lastCall.op = "task" /\ lastCall.due <= lastCall.at) =>
        /\ lastCall.created = {} /\ lastCall.jobs = {}
        /\ TaskRemindersOf(lastCall.target, lastCall.userId) = {}
        /\ \A r \in reminders : r.call # lastCall.n
        /\ \A j \in jobs : j.jid \notin lastCall.jobs

\* a past-due call that found, and deleted, reminders of an earlier call
C10_Witness ==
    /\ lastCall.op = "task" /\ lastCall.due <= lastCall.at
    /\ lastCall.deleted # {}

GoalRemindersOf(goalId) ==
    {r \in reminders : r.targetType = "GOAL" /\ r.schedule.goalId = goalId}

\* C8: goal reminders do not accumulate. In every state the store holds at most
\* 3 GOAL reminders whose schedule.goalId is a given goal, all inserted by one and
\* the same call, and right after a call for that goal (whatever title it passes)
\* that call is the one that inserted them.
C8_GoalRemindersDoNotAccumulate ==
    \A goalId \in GoalIds :
        LET mine == GoalRemindersOf(goalId)
        IN  /\ Cardinality(mine) <= 3
            /\ \A r1, r2 \in mine : r1.call = r2.call
            /\ (lastCall.op = "goal" /\ lastCall.target = goalId)
                   => \A r \in mine : r.call = lastCall.n

JobsOf(reminderId) == {j \in jobs : j.reminderId = reminderId}
Fired == lastFire.result = "completed"
\* a frequency-tagged schedule with the fields its frequency requires
FrequencyTagged(s) ==
    /\ s.at = NoDate
    /\ s.time # NoTime
    /\ s.frequency \in {"DAILY", "WEEKLY"} \/ (s.frequency = "MONTHLY" /\ s.day # 0)

\* C1: a firing for an existing reminder with a frequency-tagged schedule makes
\* exactly one scheduleReminder call, for an instant strictly later than the
\* firing time and with the (reminderId, userId, type) of the fired job, and the
\* job of that call is in the queue; a firing for which computeNextOccurrence
\* gives null makes no call and adds no job.
C1_RecurringFireReenqueuesOnce ==
    Fired =>
        /\ (lastFire.found /\ FrequencyTagged(lastFire.schedule)) =>
              /\ Len(lastFire.enqueued) = 1
              /\ lastFire.enqueued[1].scheduledFor > lastFire.at
              /\ lastFire.enqueued[1].scheduledFor = lastFire.next
              /\ lastFire.enqueued[1].reminderId = lastFire.reminderId
              /\ lastFire.enqueued[1].userId = lastFire.userId
              /\ lastFire.enqueued[1].type = lastFire.type
              /\ \E j \in jobs :
                    /\ lastFire.added = {j.jid}
                    /\ j.reminderId = lastFire.reminderId
                    /\ j.userId = lastFire.userId
                    /\ j.type = lastFire.type
                    /\ j.fireAt = lastFire.enqueued[1].scheduledFor
        /\ lastFire.next = NoDate => (lastFire.enqueued = <<>> /\ lastFire.added = {})

\* a MONTHLY reminder for day 31 fired on January 31 and was re-enqueued for March
C1_Witness ==
    /\ Fired /\ lastFire.found
    /\ lastFire.schedule.frequency = "MONTHLY"
    /\ Len(lastFire.enqueued) = 1
    /\ getMonth(lastFire.enqueued[1].scheduledFor) = 2

\* a reminder without a time in its schedule fired: no next occurrence, no call
C1_WitnessNull ==
    /\ Fired /\ lastFire.found
    /\ lastFire.schedule.frequency = "DAILY" /\ lastFire.schedule.time = NoTime
    /\ lastFire.enqueued = <<>>

\* C2: a one-shot reminder ({at}) is never re-enqueued: computeNextOccurrence
\* gives null for it whatever the clock reads, a firing of its job makes no
\* scheduleReminder call and adds no job, and the only job the queue ever holds
\* for it is the one its scheduler added, due at the reminder's instant.
C2_OneShotNeverReenqueued ==
    /\ \A r \in reminders :
          r.schedule.at # NoDate =>
              /\ computeNextOccurrence(r.schedule, r.schedule.timezone, now) = NoDate
              /\ \A j \in JobsOf(r.id) : j.fireAt = r.schedule.at
              /\ Cardinality(JobsOf(r.id)) <= 1
    /\ (Fired /\ lastFire.found /\ lastFire.schedule.at # NoDate) =>
          /\ lastFire.next = NoDate
          /\ lastFire.enqueued = <<>>
          /\ lastFire.added = {}
          /\ JobsOf(lastFire.reminderId) \subseteq {j \in jobs : j.jid = lastFire.jid}

\* the job of a one-shot reminder was delivered twice, the second time late
C2_Witness ==
    /\ Fired /\ lastFire.found
    /\ lastFire.schedule.at # NoDate
    /\ lastFire.at > lastFire.schedule.at
    /\ lastFire.jid \in DOMAIN pushes
    /\ pushes[lastFire.jid].count = 2

\* C3: a firing whose reminder is no longer in the store sends no push, makes no
\* scheduleReminder call, adds no job and completes.
C3_MissingReminderIsNoOp ==
    (lastFire.result # "none" /\ ~lastFire.found) =>
        /\ lastFire.result = "completed"
        /\ ~lastFire.pushed
        /\ lastFire.jid \notin DOMAIN pushes
        /\ lastFire.enqueued = <<>>
        /\ lastFire.added = {}
        /\ JobsOf(lastFire.reminderId) = {}

\* the job of a reminder that a reschedule had deleted fired, while push was on
C3_Witness ==
    /\ Fired /\ ~lastFire.found
    /\ pushAvailable /\ shouldSendPush(lastFire.type, settings)
    /\ lastFire.reminderId \in lastCall.deleted

\* C4: for each reminder id the 'reminders' queue holds at most one pending job.
C4_AtMostOnePendingJob ==
    \A j \in jobs : Cardinality(JobsOf(j.reminderId)) <= 1

\* C5: after DELETE /routines/:routineId no reminder of the routine or of its
\* tasks and no alarm derived from the routine is in the store.
C5_DeletedRoutineLeavesNothing ==
    lastCall.op = "deleteRoutine" =>
        LET routine == lastCall.args.routine
            taskIds == {routine.routineTasks[i].id : i \in 1..Len(routine.routineTasks)}
        IN  /\ \A r \in reminders :
                  r.schedule.routineId # routine.id /\ r.schedule.taskId \notin taskIds
            /\ \A a \in alarms : a.routineId # routine.id

\* C6: after PUT /routines/:routineId has left the routine disabled no reminder
\* whose schedule.routineId is the routine is in the store.
C6_DisabledRoutineLeavesNoReminder ==
    (lastCall.op = "putRoutine" /\ ~lastCall.args.routine.enabled) =>
        \A r \in reminders : r.schedule.routineId # lastCall.target

-----------------------------------------------------------------------------
(* Properties of the schedulers under failing operations *)

\* the plan positions of the last call and the row id of a position
LastPositions == 1..Len(lastCall.triggers)
LastRowId(i) == lastCall.base + i - 1
HasJob(i) ==
    \E j \in jobs : j.reminderId = LastRowId(i) /\ j.fireAt = lastCall.triggers[i]
\* the enqueue of position i failed and so did the delete that compensates it
DeleteLost(i) == i \in lastCall.faults.enqueue /\ i \in lastCall.faults.delete

C12_NoOrphanedGoalReminders ==
    (lastCall.op \in {"goal", "milestone"}) =>
        \A i \in LastPositions :
            (LastRowId(i) \in lastCall.created /\ LastRowId(i) \in ReminderIds)
                => (HasJob(i) \/ DeleteLost(i))

-----------------------------------------------------------------------------
(* Properties of the dispatcher *)

\* C13: a call of scheduleReminder or scheduleNotification with delay =
\* scheduledFor - now <= 0 raises an error and leaves both queues as they were;
\* with delay > 0 it raises none and adds exactly one job, due after that delay,
\* to the reminders queue (resp. the notifications queue) and nothing to the other.
C13_PastFireTimeRejected ==
    [][(lastCall'.n # lastCall.n
        /\ lastCall'.op \in {"scheduleReminder", "scheduleNotification"}) =>
          IF lastCall'.due - now <= 0
          THEN lastCall'.threw /\ jobs' = jobs /\ njobs' = njobs
          ELSE /\ ~lastCall'.threw
               /\ IF lastCall'.op = "scheduleReminder"
                  THEN /\ njobs' = njobs
                       /\ jobs \subseteq jobs' /\ Cardinality(jobs' \ jobs) = 1
                       /\ \A j \in jobs' \ jobs :
                             /\ j.fireAt - now = lastCall'.due - now
                             /\ j.reminderId = lastCall'.target
                  ELSE /\ jobs' = jobs
                       /\ njobs \subseteq njobs' /\ Cardinality(njobs' \ njobs) = 1
                       /\ \A j \in njobs' \ njobs :
                             /\ j.fireAt - now = lastCall'.due - now
                             /\ j.notificationId = lastCall'.target]_vars

\* a call with delay 0 was rejected while a job of an earlier call is queued
C13_Witness ==
    /\ lastCall.op = "scheduleReminder" /\ lastCall.due = lastCall.at /\ lastCall.threw
    /\ lastCall.jobs = {} /\ Cardinality(jobs) = 1

-----------------------------------------------------------------------------
(* Properties of the schedulers as seen by their callers *)

\* C14: scheduleTaskDueDateNotifications, scheduleGoalTargetDateNotifications,
\* scheduleMilestoneDueDateNotifications, scheduleRoutineTaskNotifications and
\* scheduleRoutineNotifications never let an error out to their caller, whichever
\* store or queue operation fails inside them.
C14_SchedulingIsBestEffort ==
    (lastCall.op \in {"task", "goal", "milestone", "routineTask", "routine"})
        => ~lastCall.threw

\* scheduleRoutineTaskNotifications was called for a task whose row would have
\* been inserted, the insert failed, the error reached the catch of the whole
\* body and the caller saw nothing
C14_Witness ==
    /\ lastCall.op = "routineTask" /\ lastCall.faults.create = {1}
    /\ lastCall.raised /\ ~lastCall.threw

-----------------------------------------------------------------------------
(* queueService.ts: the occurrence calculator applied to stored schedules *)

\* the instants the calculator is evaluated at: seven days, three clock times
CalcNows ==
    {d + c : d \in {MakeDate(2024, 0, 10, 0, 0), MakeDate(2024, 0, 30, 0, 0),
                    MakeDate(2024, 0, 31, 0, 0), MakeDate(2024, 3, 10, 0, 0),
                    MakeDate(2024, 3, 30, 0, 0), MakeDate(2024, 11, 31, 0, 0),
                    MakeDate(2025, 0, 30, 0, 0)},
             c \in {0, 9 * MinPerHour, 23 * MinPerHour + 59}}

\* the fields of the schedules the calculator is given
CalcTimes == {NoTime, HHmm(0, 0), HHmm(9, 0), HHmm(23, 59)}
Timezones == {"UTC", "Asia/Tokyo"}

CalcSchedules ==
    {ScheduleOf(NoDate, "DAILY", tm, <<>>, 0, tz) : tm \in CalcTimes, tz \in Timezones}
    \cup {ScheduleOf(NoDate, "WEEKLY", tm, ds, 0, tz) :
            tm \in CalcTimes, ds \in {<<>>, <<3>>, <<0, 6>>, <<5, 1, 2>>}, tz \in Timezones}
    \cup {ScheduleOf(NoDate, "MONTHLY", tm, <<>>, d, tz) :
            tm \in CalcTimes, d \in {0, 1, 30, 31}, tz \in Timezones}
    \cup {ScheduleOf(NoDate, f, HHmm(9, 0), <<>>, 0, "UTC") : f \in {"YEARLY", "HOURLY"}}
    \cup {NotAnObject, AtSchedule(MakeDate(2024, 0, 10, 9, 0))}

\* One reminder row with a schedule of CalcSchedules is in the store and its job
\* has come due.
InitCalc ==
    /\ now \in CalcNows
    /\ \E schedule \in CalcSchedules :
          reminders = {Reminder(1, "u1", "CUSTOM", 0, Text("Routine Reminder: ", <<<<"X">>>>),
                                Text("Your routine is coming up soon", <<<<"X">>>>),
                                schedule, 0)}
    /\ jobs = {ReminderJob(2, 1, "u1", "ROUTINE_REMINDER", now, now)}
    /\ nextId = 3
    /\ alarms = {} /\ notifications = {} /\ routines = {} /\ njobs = {} /\ pushes = <<>>
    /\ settings = DefaultSettings /\ pushAvailable = TRUE
    /\ calls = 0 /\ redelivered = 0 /\ lastFire = NoFire /\ lastCall = NoCall /\ inflight = {}
    /\ milestones = {}

NextCalc == \E j \in jobs, acked \in BOOLEAN : ProcessReminderJob(j, acked)

SpecCalc == InitCalc /\ [][NextCalc]_vars

-----------------------------------------------------------------------------
(* Properties of the occurrence calculator *)

\* the last firing found its reminder, whose schedule is an object of frequency f
\* with a time
FiredWithTime(f) ==
    /\ lastFire.found /\ IsObject(lastFire.schedule)
    /\ lastFire.schedule.at = NoDate
    /\ lastFire.schedule.frequency = f /\ lastFire.schedule.time # NoTime

\* the instant of clock time tm on the day that holds t
AtClock(t, tm) == DayNumber(t) * MinPerDay + tm[1] * MinPerHour + tm[2]

\* C15: for a DAILY schedule with time T, computeNextOccurrence returns an
\* instant (not null) that is strictly after now and is today at T when that is
\* still ahead, otherwise tomorrow at T, never later.
C15_DailyTodayOrTomorrow ==
    FiredWithTime("DAILY") =>
        /\ lastFire.next # NoDate
        /\ lastFire.next > lastFire.at
        /\ lastFire.next = IF AtClock(lastFire.at, lastFire.schedule.time) > lastFire.at
                           THEN AtClock(lastFire.at, lastFire.schedule.time)
                           ELSE AtClock(lastFire.at, lastFire.schedule.time) + MinPerDay

\* a DAILY 09:00 schedule evaluated at 09:00 sharp gave tomorrow 09:00
C15_Witness ==
    /\ FiredWithTime("DAILY") /\ lastFire.schedule.time = HHmm(9, 0)
    /\ getHours(lastFire.at) = 9 /\ getMinutes(lastFire.at) = 0
    /\ lastFire.next = lastFire.at + MinPerDay

\* the weekdays listed in schedule.days
DaySet(days) == {days[i] : i \in 1..Len(days)}

\* C16: for a WEEKLY schedule with time T and a non-empty day list,
\* computeNextOccurrence returns an instant after now whose weekday is in the
\* list and whose clock time is T, and no instant strictly between now and the
\* result has a listed weekday and clock time T.
C16_WeeklyEarliestMatch ==
    (FiredWithTime("WEEKLY") /\ Len(lastFire.schedule.days) > 0) =>
        /\ lastFire.next # NoDate
        /\ lastFire.next > lastFire.at
        /\ getDay(lastFire.next) \in DaySet(lastFire.schedule.days)
        /\ ClockTimeOf(lastFire.next) = lastFire.schedule.time
        /\ \A d \in DayNumber(lastFire.at)..DayNumber(lastFire.next) :
              (/\ lastFire.at < AtClock(d * MinPerDay, lastFire.schedule.time)
               /\ AtClock(d * MinPerDay, lastFire.schedule.time) < lastFire.next)
                  => getDay(d * MinPerDay) \notin DaySet(lastFire.schedule.days)

\* on a Tuesday the soonest candidate came from the last listed day (today,
\* later on), not from the first
C16_Witness ==
    /\ FiredWithTime("WEEKLY") /\ lastFire.schedule.days = <<5, 1, 2>>
    /\ getDay(lastFire.at) = 2 /\ getDay(lastFire.next) = 2
    /\ DayNumber(lastFire.next) = DayNumber(lastFire.at)

\* months counted from January 2024
MonthIndex(t) == (getFullYear(t) - 2024) * 12 + getMonth(t)

\* C17: for a MONTHLY schedule with time T and day D, computeNextOccurrence
\* returns an instant after now that lies in the current month or, when this
\* month's candidate has passed, in the next one, on day D of that month or on
\* the month's last day when the month has fewer than D days (day 31 in a
\* 30-day month gives the 30th, day 30 with February next gives Feb 28/29); it
\* never rolls over into the following month.
C17_MonthlyClampsToLastDay ==
    (FiredWithTime("MONTHLY") /\ lastFire.schedule.day # 0) =>
        /\ lastFire.next # NoDate
        /\ lastFire.next > lastFire.at
        /\ MonthIndex(lastFire.next) - MonthIndex(lastFire.at) \in {0, 1}
        /\ getDate(lastFire.next) =
              IF lastFire.schedule.day
                    < DaysInMonth(getFullYear(lastFire.next), getMonth(lastFire.next))
              THEN lastFire.schedule.day
              ELSE DaysInMonth(getFullYear(lastFire.next), getMonth(lastFire.next))
        /\ ClockTimeOf(lastFire.next) = lastFire.schedule.time

\* minutes by which the wall clock of a zone is ahead of the server's, the
\* server running in UTC
ZoneAhead(timezone) == IF timezone = "Asia/Tokyo" THEN 9 * MinPerHour ELSE 0

\* C18: computeNextOccurrence is timezone-aware: for a schedule with time HH:mm
\* and a declared timezone the returned instant is after now and has clock time
\* HH:mm in that timezone, and the same schedule declared in a timezone with
\* another UTC offset gives another instant for the same now.
C18_TimezoneAware ==
    (FiredWithTime("DAILY") /\ lastFire.schedule.timezone \in Timezones) =>
        /\ lastFire.next > lastFire.at
        /\ ClockTimeOf(lastFire.next + ZoneAhead(lastFire.schedule.timezone))
              = lastFire.schedule.time
        /\ \A other \in Timezones :
              ZoneAhead(other) # ZoneAhead(lastFire.schedule.timezone) =>
                  computeNextOccurrence([lastFire.schedule EXCEPT !.timezone = other],
                                        other, lastFire.at) # lastFire.next

\* a schedule that is no object, lacks the time, lacks the day a MONTHLY schedule
\* needs, or has a frequency other than DAILY, WEEKLY and MONTHLY
Malformed(schedule) ==
    \/ ~IsObject(schedule)
    \/ /\ IsObject(schedule) /\ schedule.at = NoDate
       /\ \/ schedule.time = NoTime
          \/ schedule.frequency = "MONTHLY" /\ schedule.day = 0
          \/ schedule.frequency \notin {"DAILY", "WEEKLY", "MONTHLY"}

\* C19: for a malformed or unsupported schedule computeNextOccurrence returns
\* null without raising an error, and the firing handler completes without
\* calling scheduleReminder and without adding a job.
C19_MalformedScheduleGivesNull ==
    (lastFire.found /\ Malformed(lastFire.schedule)) =>
        /\ lastFire.next = NoDate
        /\ lastFire.result = "completed"
        /\ lastFire.enqueued = <<>> /\ lastFire.added = {}
        /\ \A j \in jobs : j.jid = lastFire.jid

\* a MONTHLY schedule with a time and no day was fired and the queue is empty
C19_Witness ==
    /\ lastFire.found /\ IsObject(lastFire.schedule)
    /\ lastFire.schedule.frequency = "MONTHLY" /\ lastFire.schedule.time = HHmm(9, 0)
    /\ lastFire.schedule.day = 0
    /\ lastFire.next = NoDate /\ jobs = {}

-----------------------------------------------------------------------------
(* queueService.ts: the firing handler under the user's notification settings *)

ReminderTypes == {"TASK_REMINDER", "GOAL_REMINDER", "DUE_DATE_REMINDER", "ROUTINE_REMINDER"}

\* A one-shot reminder is in the store and its job, of any of the reminder types,
\* has come due; the user has any notification settings.
InitPrefs ==
    /\ now = MakeDate(2024, 0, 10, 9, 0)
    /\ \E pushNotifications, taskReminders, goalReminders, dueDateReminders,
             routineReminders \in {"true", "false", Unset} :
          settings = [pushNotifications |-> pushNotifications,
                      taskReminders |-> taskReminders, goalReminders |-> goalReminders,
                      dueDateReminders |-> dueDateReminders,
                      routineReminders |-> routineReminders]
    /\ pushAvailable \in BOOLEAN
    /\ reminders = {Reminder(1, "u1", "TASK", 101, Text("Task Due: ", <<<<"X">>>>),
                             Text("Your task is due now.", <<<<"X">>>>), AtSchedule(now), 0)}
    /\ \E type \in ReminderTypes : jobs = {ReminderJob(2, 1, "u1", type, now, now)}
    /\ nextId = 3
    /\ alarms = {} /\ notifications = {} /\ routines = {} /\ njobs = {} /\ pushes = <<>>
    /\ calls = 0 /\ redelivered = 0 /\ lastFire = NoFire /\ lastCall = NoCall /\ inflight = {}
    /\ milestones = {}

NextPrefs == \E j \in jobs, acked \in BOOLEAN : ProcessReminderJob(j, acked)

SpecPrefs == InitPrefs /\ [][NextPrefs]_vars

\* the per-category flag that belongs to a job type
CategoryFlag(type, ns) ==
    CASE type = "TASK_REMINDER" -> ns.taskReminders
      [] type = "GOAL_REMINDER" -> ns.goalReminders
      [] type = "DUE_DATE_REMINDER" -> ns.dueDateReminders
      [] type = "ROUTINE_REMINDER" -> ns.routineReminders

\* C20: on firing, a push is sent only if the global pushNotifications flag is
\* not "false" and the flag of the job type's own category is not "false"; with
\* both not "false" (absent counts as enabled) and the push service available the
\* push is sent, whatever the flags of the other categories are.
C20_PushFollowsPreferences ==
    (lastFire.found /\ lastFire.type \in ReminderTypes) =>
        /\ lastFire.pushed =>
              /\ settings.pushNotifications # "false"
              /\ CategoryFlag(lastFire.type, settings) # "false"
        /\ (/\ settings.pushNotifications # "false"
            /\ CategoryFlag(lastFire.type, settings) # "false"
            /\ pushAvailable) => lastFire.pushed
        /\ lastFire.pushed <=> lastFire.jid \in DOMAIN pushes

\* a GOAL_REMINDER job was pushed although taskReminders is disabled, with the
\* goal and global flags absent
C20_Witness ==
    /\ lastFire.found /\ lastFire.type = "GOAL_REMINDER" /\ lastFire.pushed
    /\ settings.taskReminders = "false"
    /\ settings.goalReminders = Unset /\ settings.pushNotifications = Unset

-----------------------------------------------------------------------------
(* queueService.ts: the firing handler and the outcome of the push *)

\* A recurring or one-shot reminder is in the store and its job has come due;
\* the user's settings and the state of the push service vary.
InitDelivery ==
    /\ now = MakeDate(2024, 0, 10, 9, 0)
    /\ \E flag \in {"pushNotifications", "routineReminders"}, value \in {"false", Unset} :
          settings = [DefaultSettings EXCEPT ![flag] = value]
    /\ pushAvailable \in BOOLEAN
    /\ \E schedule \in {ScheduleOf(NoDate, "DAILY", HHmm(9, 0), <<>>, 0, "UTC"),
                        ScheduleOf(NoDate, "DAILY", HHmm(18, 30), <<>>, 0, "UTC"),
                        ScheduleOf(NoDate, "WEEKLY", HHmm(9, 0), <<1, 3>>, 0, "UTC"),
                        ScheduleOf(NoDate, "MONTHLY", HHmm(8, 0), <<>>, 10, "UTC"),
                        AtSchedule(now)} :
          reminders = {Reminder(1, "u1", "CUSTOM", 0, Text("Routine Reminder: ", <<<<"X">>>>),
                                Text("Your routine is coming up soon", <<<<"X">>>>),
                                schedule, 0)}
    /\ jobs = {ReminderJob(2, 1, "u1", "ROUTINE_REMINDER", now, now)}
    /\ nextId = 3
    /\ alarms = {} /\ notifications = {} /\ routines = {} /\ njobs = {} /\ pushes = <<>>
    /\ calls = 0 /\ redelivered = 0 /\ lastFire = NoFire /\ lastCall = NoCall /\ inflight = {}
    /\ milestones = {}

NextDelivery ==
    \E j \in jobs, acked \in BOOLEAN, device \in {"ok", "noToken", "providerError"} :
        ProcessReminderJobOn(j, acked, device)

SpecDelivery == InitDelivery /\ [][NextDelivery]_vars

\* C21: whether the push of a firing is delivered, is rejected by the provider,
\* finds no device token or is suppressed by the preferences (or the service is
\* not available), processReminderJob completes without an error and performs
\* the recurrence step: for a recurring schedule it calls scheduleReminder once,
\* for the next occurrence, and that job is in the queue.
C21_DeliveryFailureDoesNotStopRecurrence ==
    lastFire.found =>
        /\ lastFire.result = "completed"
        /\ lastFire.next # NoDate =>
              /\ Len(lastFire.enqueued) = 1
              /\ lastFire.enqueued[1].scheduledFor = lastFire.next
              /\ \E j \in jobs : j.jid \in lastFire.added /\ j.fireAt = lastFire.next
                                    /\ j.reminderId = lastFire.reminderId

\* the provider rejected the push of a DAILY reminder and the next job is queued
C21_Witness ==
    /\ lastFire.found /\ lastFire.pushed /\ lastFire.device = "providerError"
    /\ lastFire.schedule.frequency = "DAILY" /\ lastFire.added # {}

-----------------------------------------------------------------------------
(* queueService.ts: the notification firing handler *)

\* shouldSendPush of processNotificationJob, for the job types of alarm and
\* reminder notifications (the project and comment types have flags of their own)
shouldSendNotificationPush(type, ns) ==
    IF type = "TASK_REMINDER" /\ ns.taskReminders = "false" THEN FALSE
    ELSE IF type = "GOAL_REMINDER" /\ ns.goalReminders = "false" THEN FALSE
    ELSE IF type = "DUE_DATE_REMINDER" /\ ns.dueDateReminders = "false" THEN FALSE
    ELSE ns.pushNotifications # "false"

\* (mutant) the status is SENT however the handler ended
StatusAfter_AlwaysSent(status, raised, updateFails) == "SENT"

\* the status the handler leaves on the row: SENT at the end of the body, FAILED
\* from the catch, whose own update may fail and is then only logged
StatusAfter(status, raised, updateFails) ==
    IF ~raised THEN "SENT" ELSE IF updateFails THEN status ELSE "FAILED"

\* The worker runs processNotificationJob on job j, which is due. `failing` are
\* the store operations that throw in this run: "find" (notification.findUnique),
\* "user" (user.findUnique), "sent" (the update to SENT), "failed" (the update to
\* FAILED). A job whose processor throws stays with the queue for its retry; `calls`
\* counts the runs.
ProcessNotificationJob(j, acked, failing) ==
    /\ j \in njobs
    /\ j.fireAt <= now
    /\ calls < MaxCalls
    /\ acked \/ redelivered < MaxRedeliver
    /\ \E found \in {"find" \notin failing /\ \E n \in notifications : n.id = j.notificationId} :
       \E raised \in {"find" \in failing \/ (found /\ failing \cap {"user", "sent"} # {})} :
       \E push \in {/\ found /\ "user" \notin failing /\ pushAvailable
                    /\ shouldSendNotificationPush(j.type, settings)} :
           /\ notifications' =
                 IF found \/ raised
                 THEN {IF n.id = j.notificationId
                       THEN [n EXCEPT !.status = StatusAfter(@, raised, "failed" \in failing)]
                       ELSE n : n \in notifications}
                 ELSE notifications
           /\ pushes' = IF push
                        THEN (j.jid :> [notificationId |-> j.notificationId,
                                        userId |-> j.userId, type |-> j.type,
                                        count |-> IF j.jid \in DOMAIN pushes
                                                  THEN pushes[j.jid].count + 1 ELSE 1]) @@ pushes
                        ELSE pushes
           /\ njobs' = IF acked /\ ~raised THEN njobs \ {j} ELSE njobs
           /\ lastCall' = [CallRecord("processNotificationJob", j.userId, j.notificationId,
                                      <<>>, <<j.jid, found, push>>, NoDate, {}, {}, <<>>, {})
                             EXCEPT !.faults = failing, !.raised = raised, !.threw = raised]
           /\ redelivered' = IF acked THEN redelivered ELSE redelivered + 1
           /\ calls' = calls + 1
    /\ UNCHANGED <<inflight, milestones, now, reminders, alarms, routines, jobs, nextId, settings, pushAvailable,
                   lastFire>>

\* A Notification row of an alarm, or none (its row was deleted), and its job,
\* which has come due.
InitNotify ==
    /\ now = MakeDate(2024, 0, 10, 9, 0)
    /\ \E value \in {"false", Unset} :
          settings = [DefaultSettings EXCEPT !.pushNotifications = value]
    /\ pushAvailable \in BOOLEAN
    /\ \E present \in BOOLEAN, n \in {AlarmNotification(1, [id |-> 7, userId |-> "u1",
                                                            title |-> <<"X">>], now)} :
          /\ notifications = IF present THEN {n} ELSE {}
          /\ njobs = {NotificationJob(2, n, now)}
    /\ nextId = 3
    /\ reminders = {} /\ alarms = {} /\ routines = {} /\ jobs = {} /\ pushes = <<>>
    /\ calls = 0 /\ redelivered = 0 /\ lastFire = NoFire /\ lastCall = NoCall /\ inflight = {}
    /\ milestones = {}

NextNotify ==
    \E j \in njobs, acked \in BOOLEAN, failing \in SUBSET {"find", "user", "sent", "failed"} :
        ProcessNotificationJob(j, acked, failing)

SpecNotify == InitNotify /\ [][NextNotify]_vars

\* the rows of the notification a run of processNotificationJob was about
RowsOf(ns, id) == {n \in ns : n.id = id}

\* C22 (as stated): processNotificationJob never enqueues a job; when it
\* completes without an error the Notification's status is SENT, when it fails
\* the status is FAILED and the error is rethrown to the queue, and for a
\* missing Notification row it does nothing.
C22_NotificationPathOneShot ==
    [][/\ njobs' \subseteq njobs /\ jobs' = jobs
       /\ (RowsOf(notifications, lastCall'.target) = {} /\ "find" \notin lastCall'.faults) =>
             /\ notifications' = notifications /\ pushes' = pushes /\ ~lastCall'.threw
       /\ (RowsOf(notifications, lastCall'.target) # {} /\ ~lastCall'.raised) =>
             /\ ~lastCall'.threw
             /\ \A n \in RowsOf(notifications', lastCall'.target) : n.status = "SENT"
       /\ (RowsOf(notifications, lastCall'.target) # {} /\ lastCall'.raised) =>
             /\ lastCall'.threw
             /\ \A n \in RowsOf(notifications', lastCall'.target) : n.status = "FAILED"]_vars

\* C22 (amended): as above, but when the handler fails the status is FAILED only
\* if the update that sets it succeeds; when that update fails too the status is
\* left as it was, and the error is rethrown all the same.
C22_NotificationPathOneShotBestEffort ==
    [][/\ njobs' \subseteq njobs /\ jobs' = jobs
       /\ (RowsOf(notifications, lastCall'.target) = {} /\ "find" \notin lastCall'.faults) =>
             /\ notifications' = notifications /\ pushes' = pushes /\ ~lastCall'.threw
       /\ (RowsOf(notifications, lastCall'.target) # {} /\ ~lastCall'.raised) =>
             /\ ~lastCall'.threw
             /\ \A n \in RowsOf(notifications', lastCall'.target) : n.status = "SENT"
       /\ (RowsOf(notifications, lastCall'.target) # {} /\ lastCall'.raised) =>
             /\ lastCall'.threw
             /\ IF "failed" \in lastCall'.faults
                THEN RowsOf(notifications', lastCall'.target)
                        = RowsOf(notifications, lastCall'.target)
                ELSE \A n \in RowsOf(notifications', lastCall'.target) :
                        n.status = "FAILED"]_vars

\* a run failed at the update to SENT and the update to FAILED failed too: the
\* error went to the queue, the row is still PENDING and the job awaits its retry
C22_Witness ==
    /\ lastCall.op = "processNotificationJob" /\ lastCall.threw
    /\ lastCall.faults = {"sent", "failed"}
    /\ \E n \in notifications : n.id = lastCall.target /\ n.status = "PENDING"
    /\ \E j \in njobs : j.notificationId = lastCall.target

-----------------------------------------------------------------------------
(* Properties of the routine task reminders and their alarms *)

\* C23: the time stored in the schedule of a routine task's reminder is a clock
\* time (hour 0..23, minute 0..59): the routine's time less the task's relative
\* reminderTime, taken modulo 24 hours, the absolute reminderTime as it is, or
\* the routine's time when the task has none.
C23_NotificationTimeIsClockTime ==
    \A r \in reminders : r.schedule.taskId # 0 =>
        /\ r.schedule.time[1] \in 0..23 /\ r.schedule.time[2] \in 0..59
        /\ \A routine \in routines : routine.id = r.schedule.routineId =>
              \A k \in 1..Len(routine.routineTasks) :
                  routine.routineTasks[k].id = r.schedule.taskId =>
                      LET reminderTime == routine.routineTasks[k].reminderTime
                          minutes == routine.schedule.time[1] * MinPerHour
                                     + routine.schedule.time[2]
                          stored == r.schedule.time[1] * MinPerHour + r.schedule.time[2]
                      IN  IF reminderTime.kind = "abs" THEN r.schedule.time = reminderTime.time
                          ELSE IF reminderTime.kind = "min"
                              THEN stored = (minutes - reminderTime.n) % MinPerDay
                          ELSE IF reminderTime.kind = "hour"
                              THEN stored = (minutes - reminderTime.n * MinPerHour) % MinPerDay
                          ELSE r.schedule.time = routine.schedule.time

\* C24: after every route or scheduler call at most one Alarm exists per user
\* and routine: a reschedule replaces the alarm derived before, whatever routine
\* creations, updates (title changes too) and task reschedules came before.
C24_OneAlarmPerRoutine ==
    \A a, b \in alarms : (a.userId = b.userId /\ a.routineId = b.routineId) => a = b

\* the alarm a derived by a call of scheduleRoutineTaskNotifications for a task
\* of routine, together with the reminder r and the first job j of that call
\* (the call takes the ids of reminder, job and alarm in a row)
DerivedTogether(a, r, j, routine) ==
    /\ r.id = a.id - 2 /\ j.jid = a.id - 1 /\ j.reminderId = r.id
    /\ r.call = a.call /\ r.schedule.routineId = a.routineId
    /\ routine.id = a.routineId

\* the reminderTime of the task of routine that reminder r belongs to
TaskReminderTimes(routine, r) ==
    {routine.routineTasks[k].reminderTime :
        k \in {i \in 1..Len(routine.routineTasks) :
                  routine.routineTasks[i].id = r.schedule.taskId}}

\* C25: when scheduleRoutineTaskNotifications is called for a routine with
\* reminderBefore "<n>h", n < 24, and a task without reminderTime, the derived
\* Alarm's time is n hours before the next occurrence the call computed (the
\* instant its reminder job is due), on the same day or, when the subtraction
\* crosses midnight, on the day before.
C25_AlarmHoursBeforeOccurrence ==
    \A a \in alarms, r \in reminders, j \in jobs, routine \in routines :
        (/\ lastCall.op = "routineTask" /\ a.call = lastCall.n
         /\ DerivedTogether(a, r, j, routine)
         /\ routine.reminderBefore.unit = "h" /\ routine.reminderBefore.value < 24
         /\ TaskReminderTimes(routine, r) = {NoReminderTime})
            => a.time = j.fireAt - routine.reminderBefore.value * MinPerHour

\* C26: when the routine has no reminderBefore, the derived Alarm is anchored
\* at the effective notification time of the Reminder: its clock time is the
\* time of the reminder's schedule (the routine time adjusted by the task's
\* relative or absolute reminderTime) and its date is that of the next
\* occurrence the call computed.
C26_AlarmAtNotificationTime ==
    \A a \in alarms, r \in reminders, j \in jobs, routine \in routines :
        (DerivedTogether(a, r, j, routine) /\ routine.reminderBefore = NoBefore)
            => /\ ClockTimeOf(a.time) = r.schedule.time
               /\ DayNumber(a.time) = DayNumber(j.fireAt)

-----------------------------------------------------------------------------
(* notificationScheduler.ts: the push notification of an alarm *)

\* scheduleAlarmPushNotification(alarm) as a call of its own
ScheduleAlarmPush(a) ==
    /\ a \in alarms
    /\ calls < MaxCalls
    /\ \E st \in {scheduleAlarmPushNotification(Store, a, now)} :
          /\ Commit(st)
          /\ lastCall' = CallRecord("scheduleAlarmPushNotification", a.userId, a.id,
                                    a.title, <<a.time, a.recurrenceRule.freq, a.enabled>>,
                                    NoDate, {}, {}, <<>>,
                                    {j.jid : j \in st.njobs \ njobs})
    /\ calls' = calls + 1
    /\ UNCHANGED <<inflight, milestones, now, routines, pushes, settings, pushAvailable, redelivered, lastFire>>

\* One alarm is in the store, enabled or not, with or without a recurrence
\* rule; its time is before, at or after the clock, and a notification of an
\* earlier scheduling may still be pending.
InitAlarm ==
    /\ now \in {MakeDate(2024, 2, 5, 10, 0), MakeDate(2024, 1, 20, 9, 0)}
    /\ \E time \in {MakeDate(2024, 0, 31, 9, 0), MakeDate(2024, 1, 14, 9, 0),
                    MakeDate(2024, 2, 4, 9, 0), MakeDate(2024, 2, 5, 9, 30),
                    MakeDate(2024, 2, 5, 10, 0), MakeDate(2024, 2, 6, 8, 0)} :
       \E rule \in {NoRule, RecurrenceRule("DAILY", NoSchedule),
                    [freq |-> "WEEKLY", by |-> <<getDay(time)>>],
                    [freq |-> "MONTHLY", by |-> <<getDate(time)>>],
                    RecurrenceRule("YEARLY", NoSchedule)},
          enabled \in BOOLEAN, pending \in BOOLEAN :
          /\ alarms = {[Alarm(1, "u1", <<"X">>, time, "UTC", rule, 0, 0)
                            EXCEPT !.enabled = enabled]}
          /\ notifications = IF pending
                             THEN {AlarmNotification(2, CHOOSE a \in alarms : TRUE, time)}
                             ELSE {}
    /\ nextId = 3
    /\ reminders = {} /\ routines = {} /\ jobs = {} /\ njobs = {} /\ pushes = <<>>
    /\ settings = DefaultSettings /\ pushAvailable = TRUE
    /\ calls = 0 /\ redelivered = 0 /\ lastFire = NoFire /\ lastCall = NoCall /\ inflight = {}
    /\ milestones = {}

NextAlarm == \E a \in alarms : ScheduleAlarmPush(a)

SpecAlarm == InitAlarm /\ [][NextAlarm]_vars

\* the instant k periods after time: k days, k weeks, or the same day of the
\* month k months later (the last day of that month if it has no such day; the
\* reading in which the excess days run into the month after is accepted too)
PeriodsAfter(time, freq, k, clamp) ==
    IF freq = "DAILY" THEN time + k * MinPerDay
    ELSE IF freq = "WEEKLY" THEN time + 7 * k * MinPerDay
    ELSE LET first == setMonth(setDate(time, 1), getMonth(time) + k)
             last == DaysInMonth(getFullYear(first), getMonth(first))
         IN  IF clamp /\ getDate(time) > last THEN setDate(first, last)
             ELSE setMonth(time, getMonth(time) + k)

\* time + k periods is the first of these instants after t
FirstPeriodAfter(at, time, freq, t, clamp) ==
    \E k \in 1..((t - time) \div (MinPerDay * (IF freq = "DAILY" THEN 1
                                              ELSE IF freq = "WEEKLY" THEN 7 ELSE 28)) + 1) :
        /\ at = PeriodsAfter(time, freq, k, clamp)
        /\ at > t
        /\ \A i \in 1..(k - 1) : PeriodsAfter(time, freq, i, clamp) <= t

PendingOf(a) ==
    {n \in notifications : n.payload.alarmId = a.id /\ n.status = "PENDING"}

\* C27: for an enabled alarm with time <= now and a DAILY, WEEKLY or MONTHLY
\* rule, scheduleAlarmPushNotification schedules the notification at time + k
\* periods for the smallest k >= 1 that makes it strictly future; for an alarm
\* with no rule or an unsupported rule whose time is more than a second in the
\* past it schedules nothing and leaves no pending Notification of the alarm.
C27_AlarmRollover ==
    \A a \in alarms :
        (lastCall.op = "scheduleAlarmPushNotification" /\ lastCall.target = a.id
         /\ a.enabled /\ a.time <= lastCall.at)
            => IF a.recurrenceRule.freq \in {"DAILY", "WEEKLY", "MONTHLY"}
               THEN \E n \in PendingOf(a), clamp \in BOOLEAN :
                       /\ PendingOf(a) = {n}
                       /\ FirstPeriodAfter(n.scheduledFor, a.time, a.recurrenceRule.freq,
                                           lastCall.at, clamp)
                       /\ \E j \in njobs : /\ j.jid \in lastCall.jobs
                                           /\ j.notificationId = n.id
                                           /\ j.fireAt = n.scheduledFor
               ELSE a.time < lastCall.at
                       => PendingOf(a) = {} /\ lastCall.jobs = {}

\* C28: an alarm with rule FREQ=YEARLY whose time is in the past is rolled over
\* by whole years to a strictly future instant (the same month, day and clock
\* time in a later year) and its notification is scheduled at that instant.
C28_YearlyRollover ==
    \A a \in alarms :
        (lastCall.op = "scheduleAlarmPushNotification" /\ lastCall.target = a.id
         /\ a.enabled /\ a.recurrenceRule.freq = "YEARLY" /\ a.time < lastCall.at)
            => \E n \in PendingOf(a) :
                  /\ n.scheduledFor > lastCall.at
                  /\ getFullYear(n.scheduledFor) > getFullYear(a.time)
                  /\ getMonth(n.scheduledFor) = getMonth(a.time)
                  /\ getDate(n.scheduledFor) = getDate(a.time)
                  /\ ClockTimeOf(n.scheduledFor) = ClockTimeOf(a.time)
                  /\ \E j \in njobs : j.notificationId = n.id /\ j.fireAt = n.scheduledFor

-----------------------------------------------------------------------------
(* notificationScheduler.ts: routines that recur yearly *)

\* A routine with one task whose notifications were scheduled by the route that
\* added the task; the routine now recurs as it did then or has been changed to
\* YEARLY.
InitYearly ==
    /\ now = MakeDate(2024, 0, 30, 22, 20)
    /\ \E data \in RoutineInputs, task \in RoutineTaskInputs :
       \E frequency \in {data.frequency, "YEARLY"},
          st \in {scheduleRoutineTaskNotifications(
                      [reminders |-> {}, alarms |-> {}, notifications |-> {}, jobs |-> {},
                       njobs |-> {}, nextId |-> 3],
                      1, RoutineOwner, data.title, data.frequency, data.schedule,
                      data.timezone, 2, task.title, task.reminderTime, NoBefore, now, 0)} :
          /\ routines = {[RoutineRow(1, RoutineOwner, data)
                             EXCEPT !.frequency = frequency,
                                    !.routineTasks = <<RoutineTaskRow(2, task)>>]}
          /\ reminders = st.reminders /\ alarms = st.alarms
          /\ notifications = st.notifications /\ jobs = st.jobs /\ njobs = st.njobs
          /\ nextId = st.nextId
    /\ pushes = <<>> /\ settings = DefaultSettings /\ pushAvailable = TRUE
    /\ calls = 0 /\ redelivered = 0 /\ lastFire = NoFire /\ lastCall = NoCall /\ inflight = {}
    /\ milestones = {}

NextYearly ==
    \E faults \in RoutineFaultCases, routine \in routines :
        RoutineTaskCallUnder(faults, routine, 1)

SpecYearly == InitYearly /\ [][NextYearly]_vars

\* a call of scheduleRoutineTaskNotifications for a routine that recurs yearly
YearlyTaskCall ==
    /\ lastCall'.n # lastCall.n
    /\ lastCall'.op = "routineTask"
    /\ lastCall'.args.routine.frequency = "YEARLY"

\* C29: for a routine with frequency YEARLY, scheduleRoutineTaskNotifications
\* creates no Reminder, enqueues no job and creates no Alarm (nor a notification
\* of one): it only deletes the previous reminders of the task and returns.
C29_YearlyRoutineSchedulesNothing ==
    [][YearlyTaskCall =>
          /\ reminders' \subseteq reminders
          /\ jobs' = jobs /\ alarms' = alarms
          /\ notifications' = notifications /\ njobs' = njobs
          /\ ~lastCall'.faults.deleteMany =>
                reminders' = {r \in reminders :
                                ~IsCustomReminderNoting(r, lastCall'.userId,
                                                        lastCall'.args.task.title)}]_vars

\* a call for a yearly routine has deleted the task's reminder of an earlier
\* scheduling; the job and the alarm of that scheduling are still there
C29_Witness ==
    /\ lastCall.op = "routineTask"
    /\ lastCall.args.routine.frequency = "YEARLY"
    /\ lastCall.deleted # {}
    /\ lastCall.created = {} /\ lastCall.jobs = {}
    /\ reminders = {} /\ jobs # {} /\ alarms # {}

-----------------------------------------------------------------------------
(* queueService.ts: the life of a reminder's job *)

\* Recurring reminders of routines and one-shot reminders of tasks, the routes
\* that create, replace and delete them, and a worker that may lose a job it
\* has run.
InitLifecycle == InitOneShot /\ pushAvailable

NextLifecycle ==
    \/ \E data \in {d \in RoutineInputs : d.frequency = "DAILY" /\ d.schedule.time # NoTime} :
          PostRoutine(RoutineOwner, data)
    \/ \E routine \in routines : DeleteRoutine(routine)
    \/ scheduleTaskDueDateNotifications(101, "u1", now + 45, <<"X">>, ClockTimeOf(now + 45))
    \/ Worker
    \/ Redelivery
    \/ Tick

SpecLifecycle == InitLifecycle /\ [][NextLifecycle]_vars

\* where reminder id stands, given the reminder rows rs and the queued jobs js
LifecycleOf(id, rs, js) ==
    IF ~\E r \in rs : r.id = id THEN "CANCELLED"
    ELSE IF \E j \in js : j.reminderId = id THEN "SCHEDULED"
    ELSE "EXPIRED"

\* the worker has run the handler on job j (FIRED)
FiredJob(j) ==
    /\ j \in jobs /\ j.fireAt <= now
    /\ calls' = calls /\ now' = now
    /\ lastFire'.jid = j.jid /\ lastFire'.at = now

\* C30: the job of a reminder goes SCHEDULED -> FIRED -> (re-SCHEDULED | EXPIRED).
\* A job for a reminder that already exists is added only by the firing of a
\* queued, due job of that reminder which found its row; the firing handler
\* never schedules a reminder that has no job left (EXPIRED); and a deleted
\* reminder (CANCELLED) never comes back, the firing of a job of it sends no
\* push and adds no job or notification.
C30_ReminderLifecycle ==
    [][/\ \A x \in jobs' \ jobs :
             x.reminderId \in ReminderIds
                => \E j \in jobs : /\ FiredJob(j)
                                   /\ j.reminderId = x.reminderId
                                   /\ lastFire'.found
                                   /\ x.jid \in lastFire'.added
       /\ \A r \in reminders :
             ((\E j \in jobs : FiredJob(j)) /\ LifecycleOf(r.id, reminders, jobs) = "EXPIRED")
                => LifecycleOf(r.id, reminders', jobs') = "EXPIRED"
       /\ \A id \in 1..(nextId - 1) :
             LifecycleOf(id, reminders, jobs) = "CANCELLED"
                => LifecycleOf(id, reminders', jobs') = "CANCELLED"
       /\ \A j \in jobs :
             (FiredJob(j) /\ LifecycleOf(j.reminderId, reminders, jobs) = "CANCELLED")
                => /\ ~lastFire'.found
                   /\ pushes' = pushes /\ jobs' \subseteq jobs
                   /\ reminders' = reminders
                   /\ notifications' = notifications /\ njobs' = njobs]_vars

\* the job of a deleted reminder has fired as a no-op while another reminder is
\* scheduled and a third one has expired after its push
C30_Witness ==
    /\ lastFire.jid # 0 /\ ~lastFire.found /\ lastFire.added = {}
    /\ \E r \in reminders : LifecycleOf(r.id, reminders, jobs) = "SCHEDULED"
    /\ \E r \in reminders : LifecycleOf(r.id, reminders, jobs) = "EXPIRED"

-----------------------------------------------------------------------------
(* routes/task.ts and notificationScheduler.ts: calls of the task scheduler
   that overlap. The route starts scheduleTaskDueDateNotifications without
   awaiting it, and every await of the function (deleteMany, each create, each
   scheduleReminder) is a point where another call may run. *)

\* the call the route starts: nothing has run yet
BeginTaskCall(taskId, userId, dueDate, taskTitle, dueTime) ==
    /\ calls < MaxCalls
    /\ inflight' = inflight \cup
          {[call |-> calls + 1, taskId |-> taskId, userId |-> userId,
            due |-> TaskDueDateTime(dueDate, dueTime), title |-> taskTitle,
            pc |-> "deleteMany", plan |-> <<>>, created |-> <<>>, i |-> 1]}
    /\ calls' = calls + 1
    /\ UNCHANGED <<milestones, now, reminders, alarms, notifications, routines, jobs, njobs, nextId,
                   pushes, settings, pushAvailable, redelivered, lastFire, lastCall>>

\* a call that has returned
ReturnTaskCall(c) ==
    [CallRecord("task", c.userId, c.taskId, c.title, <<>>, c.due, {},
                {c.created[k] : k \in 1..Len(c.created)}, <<>>, {})
        EXCEPT !.n = c.call]

\* await prisma.reminder.deleteMany(...), then the plan is made from the clock
TaskCallDeletes(c) ==
    /\ c \in inflight /\ c.pc = "deleteMany"
    /\ reminders' = {r \in reminders : ~IsTaskReminder(r, c.taskId, c.userId)}
    /\ \E plan \in {TaskPlan(c.due, c.title, now)} :
          IF plan = <<>>
          THEN inflight' = inflight \ {c} /\ lastCall' = ReturnTaskCall(c)
          ELSE /\ inflight' = (inflight \ {c}) \cup {[c EXCEPT !.pc = "create", !.plan = plan]}
               /\ UNCHANGED lastCall
    /\ UNCHANGED <<milestones, now, alarms, notifications, routines, jobs, njobs, nextId, pushes,
                   settings, pushAvailable, calls, redelivered, lastFire>>

\* await prisma.reminder.create(...) of the next row of the plan
TaskCallCreates(c) ==
    /\ c \in inflight /\ c.pc = "create"
    /\ reminders' = reminders \cup
          {Reminder(nextId, c.userId, "TASK", c.taskId, c.plan[c.i].title, c.plan[c.i].note,
                    c.plan[c.i].schedule, c.call)}
    /\ nextId' = nextId + 1
    /\ inflight' = (inflight \ {c}) \cup
          {IF c.i = Len(c.plan)
           THEN [c EXCEPT !.pc = "scheduleReminder", !.i = 1, !.created = Append(@, nextId)]
           ELSE [c EXCEPT !.i = @ + 1, !.created = Append(@, nextId)]}
    /\ UNCHANGED <<milestones, now, alarms, notifications, routines, jobs, njobs, pushes, settings,
                   pushAvailable, calls, redelivered, lastFire, lastCall>>

\* await scheduleReminder(...) of the next created row; a row whose call throws
\* is deleted again. The call returns after the last one.
TaskCallSchedules(c) ==
    /\ c \in inflight /\ c.pc = "scheduleReminder"
    /\ IF scheduleReminderAccepts(c.plan[c.i].time, now)
       THEN /\ jobs' = jobs \cup {ReminderJob(nextId, c.created[c.i], c.userId,
                                              "DUE_DATE_REMINDER", c.plan[c.i].time, now)}
            /\ nextId' = nextId + 1
            /\ UNCHANGED reminders
       ELSE /\ reminders' = {r \in reminders : r.id # c.created[c.i]}
            /\ UNCHANGED <<jobs, nextId>>
    /\ IF c.i = Len(c.plan)
       THEN inflight' = inflight \ {c} /\ lastCall' = ReturnTaskCall(c)
       ELSE inflight' = (inflight \ {c}) \cup {[c EXCEPT !.i = @ + 1]} /\ UNCHANGED lastCall
    /\ UNCHANGED <<milestones, now, alarms, notifications, routines, njobs, pushes, settings,
                   pushAvailable, calls, redelivered, lastFire>>

\* The client sends the update of one task twice, or two updates of it.
InitRace ==
    /\ now \in StartTimes
    /\ settings = DefaultSettings
    /\ pushAvailable = TRUE
    /\ InitStores

NextRace ==
    \/ \E in \in OneShotInputs :
          BeginTaskCall(101, "u1", now + in[1], <<"X">>,
                        IF in[2] THEN ClockTimeOf(now + in[1]) ELSE NoTime)
    \/ \E c \in inflight : TaskCallDeletes(c)
    \/ \E c \in inflight : TaskCallCreates(c)
    \/ \E c \in inflight : TaskCallSchedules(c)

SpecRace == InitRace /\ [][NextRace]_vars

\* C31: when two scheduleTaskDueDateNotifications calls for the same task
\* overlap, the last write wins: once both have returned the store holds the
\* reminders of one of the two calls only, at most 3 for the task and all with
\* the due instant of a single call.
C31_LastWriteWins ==
    inflight = {}
        => \A taskId \in TaskIds, userId \in Users :
              LET mine == TaskRemindersOf(taskId, userId)
              IN  /\ Cardinality(mine) <= 3
                  /\ \A r1, r2 \in mine : r1.call = r2.call

-----------------------------------------------------------------------------
(* Properties of the routine schedulers and of the firing handler *)

\* a call of scheduleRoutineTaskNotifications for one task has just returned
RoutineTaskCallReturned ==
    /\ lastCall'.n # lastCall.n
    /\ lastCall'.op \in {"postRoutineTask", "routineTask"}

\* C32: scheduleRoutineTaskNotifications for task T of a user touches only the
\* reminders correlated to T. Every CUSTOM reminder of the user whose
\* schedule.taskId is another task, or that is the reminder of the routine
\* itself, is still there afterwards with the schedule it had (taskId and
\* alarmId included).
C32_OtherTasksUntouched ==
    [][RoutineTaskCallReturned =>
          \A r \in reminders :
              (r.targetType = "CUSTOM" /\ r.userId = lastCall'.userId
               /\ r.schedule.taskId # lastCall'.args.task.id)
                  => \E x \in reminders' : x.id = r.id /\ x.schedule = r.schedule]_vars

\* the rows the last call inserted that are in the store
StoredByLastCall == {r \in reminders : r.id \in lastCall.created}

\* the instants of `offsets` before `due` that lie after t, none if due has passed
InstantsBefore(due, offsets, t) ==
    IF due <= t THEN {} ELSE {due - d : d \in {x \in offsets : due - x > t}}

\* C33: for a goal with target instant T > now the goal scheduler creates
\* exactly the one-shot reminders at T - 7 days and T - 1 day (each if after
\* now) and at T; for a milestone the due instant is 23:59 of the due date and
\* the reminders are at due - 1 day and due - 1 hour (each if after now) and at
\* due. All are stored with targetType GOAL and no targetId, and none is created
\* when the instant is not after now.
C33_GoalAndMilestoneReminders ==
    (lastCall.op \in {"goal", "milestone"} /\ lastCall.faults = NoFaults)
        => LET expected ==
                   IF lastCall.op = "goal"
                   THEN InstantsBefore(lastCall.due, {7 * MinPerDay, MinPerDay, 0}, lastCall.at)
                   ELSE InstantsBefore(lastCall.due, {MinPerDay, MinPerHour, 0}, lastCall.at)
           IN  /\ lastCall.op = "milestone"
                     => /\ ClockTimeOf(lastCall.due) = HHmm(23, 59)
                        /\ DayNumber(lastCall.due) = DayNumber(lastCall.args.dueDate)
               /\ {r.id : r \in StoredByLastCall} = lastCall.created
               /\ {r.schedule.at : r \in StoredByLastCall} = expected
               /\ Cardinality(StoredByLastCall) = Cardinality(expected)
               /\ \A r \in StoredByLastCall :
                     /\ r.targetType = "GOAL" /\ r.targetId = 0
                     /\ r.schedule.frequency = "NONE"
                     /\ \E j \in jobs : j.reminderId = r.id /\ j.fireAt = r.schedule.at

\* a milestone call has created its three reminders next to the three of a goal
C33_Witness ==
    /\ lastCall.op = "milestone" /\ lastCall.faults = NoFaults
    /\ Cardinality(StoredByLastCall) = 3
    /\ Cardinality({r \in reminders : r.schedule.milestoneId = 0 /\ r.schedule.goalId # 0}) = 3

\* C34: the firing handler never mutates the reminder store. After
\* processReminderJob has run, whether it has enqueued the next job or the
\* reminder has expired, the Reminder rows and their schedules are what they
\* were; an expired reminder stays in the store.
C34_FiringLeavesRemindersAlone ==
    [][(\E j \in jobs : FiredJob(j)) => reminders' = reminders]_vars

\* a one-shot reminder has fired with its push, has no job left and is still
\* in the store
C34_Witness ==
    /\ lastFire.found /\ lastFire.pushed /\ lastFire.next = NoDate
    /\ lastFire.result = "completed"
    /\ \E r \in reminders : r.id = lastFire.reminderId /\ r.schedule = lastFire.schedule
    /\ ~\E j \in jobs : j.reminderId = lastFire.reminderId

\* C35: every recurring (frequency-tagged) Reminder in the store has a pending
\* job once the call that created it has returned: the routine schedulers
\* either enqueue the job of a reminder they create or delete the reminder, and
\* a firing leaves a successor job while computeNextOccurrence gives a date.
C35_RecurringReminderHasJob ==
    \A r \in reminders :
        (/\ r.schedule.frequency \in {"DAILY", "WEEKLY", "MONTHLY"}
         /\ computeNextOccurrence(r.schedule, scheduleTimezone(r.schedule), now) # NoDate)
            => \E j \in jobs : j.reminderId = r.id

\* instant t is an occurrence of the routine whose schedule the reminder carries
IsRoutineOccurrence(t, schedule) ==
    /\ ClockTimeOf(t) = schedule.time
    /\ schedule.frequency = "WEEKLY" => getDay(t) \in DaySet(schedule.days)
    /\ schedule.frequency = "MONTHLY" => getDate(t) = schedule.day

\* the length of reminderBefore in minutes
BeforeMinutes(reminderBefore) ==
    reminderBefore.value * (IF reminderBefore.unit = "h" THEN MinPerHour
                            ELSE IF reminderBefore.unit = "d" THEN MinPerDay
                            ELSE 7 * MinPerDay)

\* C36: every firing of a 'Routine Reminder' created by
\* scheduleRoutineReminderNotification happens exactly reminderBefore before an
\* occurrence of the routine: the first job and each job the firing handler
\* enqueues after it are due reminderBefore before an occurrence.
C36_RoutineReminderKeepsOffset ==
    \A r \in reminders, j \in jobs :
        (/\ j.reminderId = r.id
         /\ r.schedule.reminderBefore # NoBefore
         /\ r.schedule.time # NoTime)
            => IsRoutineOccurrence(j.fireAt + BeforeMinutes(r.schedule.reminderBefore),
                                   r.schedule)

\* C37: a reminder job sends at most one push per delivery, queue retries
\* (attempts = 3) included: once processReminderJob has invoked the push, nothing
\* later in the handler makes the job fail, so the job is never retried after a
\* push and the only repeated pushes of a job are those of a job the queue
\* delivered again after the worker lost it.
C37_NoPushAgainOnRetry ==
    /\ lastFire.pushed => lastFire.result = "completed"
    /\ \A jid \in DOMAIN pushes : pushes[jid].count <= 1 + redelivered

\* the push of a job was handed to a provider that rejected it, the recurrence
\* step ran after it, and the job has left the queue with one push counted
C37_Witness ==
    /\ lastFire.pushed /\ lastFire.device = "providerError" /\ redelivered = 0
    /\ lastFire.jid \in DOMAIN pushes /\ pushes[lastFire.jid].count = 1
    /\ ~\E j \in jobs : j.jid = lastFire.jid

\* C38: each Notification record results in at most one push across all the
\* attempts of its job: when the update of the status to SENT fails after the
\* push and the queue retries the job, the push is not sent a second time (the
\* only repeated pushes are those of a job the queue delivered again after the
\* worker lost it).
C38_NotificationPushedOnce ==
    \A jid \in DOMAIN pushes :
        "notificationId" \in DOMAIN pushes[jid] => pushes[jid].count <= 1 + redelivered

-----------------------------------------------------------------------------
(* notificationScheduler.ts: rescheduling a routine that has several tasks *)

\* the stores after POST /routines/:routineId/tasks for each task of `tasks` in
\* turn, the routine row being `routine`; the k-th call is call number callNo + k
RECURSIVE AfterTaskPosts(_, _, _, _, _)
AfterTaskPosts(st, routine, tasks, t, callNo) ==
    IF tasks = <<>> THEN st
    ELSE AfterTaskPosts(
            scheduleRoutineTaskNotifications([st EXCEPT !.nextId = @ + 1], routine.id,
                routine.userId, routine.title, routine.frequency, routine.schedule,
                routine.timezone, st.nextId, Head(tasks).title, Head(tasks).reminderTime,
                NoBefore, t, callNo + 1),
            routine, Tail(tasks), t, callNo + 1)

\* the task rows those requests add to the routine
RECURSIVE TaskRowsFrom(_, _, _, _)
TaskRowsFrom(st, routine, tasks, t) ==
    IF tasks = <<>> THEN <<>>
    ELSE <<RoutineTaskRow(st.nextId, Head(tasks))>>
         \o TaskRowsFrom(AfterTaskPosts(st, routine, <<Head(tasks)>>, t, 0), routine,
                         Tail(tasks), t)

\* bodies of the task requests made before the routine is rescheduled
TaskLists ==
    {<<[title |-> <<"Q">>, reminderTime |-> NoReminderTime]>>,
     <<[title |-> <<"Q">>, reminderTime |-> NoReminderTime],
       [title |-> <<"Z">>, reminderTime |-> MinutesBefore(15)]>>,
     <<[title |-> <<"Q">>, reminderTime |-> AbsoluteTime(HHmm(8, 0))],
       [title |-> <<"Z">>, reminderTime |-> NoReminderTime],
       [title |-> <<"Y">>, reminderTime |-> NoReminderTime]>>}

\* A routine was created and its tasks were added one request after the other.
InitReschedule ==
    /\ now = MakeDate(2024, 0, 30, 22, 20)
    /\ \E data \in {d \in RoutineInputs : d.schedule.time # NoTime}, tasks \in TaskLists :
       \E row \in {RoutineRow(1, RoutineOwner, data)} :
       \E posted \in {scheduleRoutineNotifications(
                         [reminders |-> {}, alarms |-> {}, notifications |-> {}, jobs |-> {},
                          njobs |-> {}, nextId |-> 2], {row}, 1, now, 0)} :
       \E st \in {AfterTaskPosts(posted, row, tasks, now, 0)} :
          /\ routines = {[row EXCEPT !.routineTasks = TaskRowsFrom(posted, row, tasks, now)]}
          /\ reminders = st.reminders /\ alarms = st.alarms
          /\ notifications = st.notifications /\ jobs = st.jobs /\ njobs = st.njobs
          /\ nextId = st.nextId
    /\ pushes = <<>> /\ settings = DefaultSettings /\ pushAvailable = TRUE
    /\ calls = 0 /\ redelivered = 0 /\ lastFire = NoFire /\ lastCall = NoCall /\ inflight = {}
    /\ milestones = {}

NextReschedule ==
    \E routine \in routines, data \in RoutineUpdates : PutRoutine(routine, data)

SpecReschedule == InitReschedule /\ [][NextReschedule]_vars

\* the alarms by id
AlarmIds == {a.id : a \in alarms}

\* C39: after scheduleRoutineNotifications has completed for a routine with any
\* number of tasks, the schedule.alarmId of every Reminder refers to an Alarm
\* that exists in the store, and no pending ALARM_TRIGGER Notification and no
\* job of one remains for an Alarm that was deleted while rescheduling.
C39_AlarmReferencesResolve ==
    (lastCall.op = "putRoutine" /\ lastCall.args.routine.enabled)
        => /\ \A r \in reminders : r.schedule.alarmId # 0 => r.schedule.alarmId \in AlarmIds
           /\ \A n \in notifications :
                 (n.status = "PENDING" /\ n.payload.notificationType = "ALARM_TRIGGER")
                     => n.payload.alarmId \in AlarmIds
           /\ \A j \in njobs : \E n \in notifications :
                 n.id = j.notificationId /\ n.payload.alarmId \in AlarmIds

-----------------------------------------------------------------------------
(* notificationScheduler.ts: the periodic check for overdue milestones *)

\* A Milestone row with the goal it belongs to (include: { goal })
Milestone(id, title, dueDate, status, goalId, userId, goalTitle, goalStatus) ==
    [id |-> id, title |-> title, dueDate |-> dueDate, status |-> status,
     goal |-> [id |-> goalId, userId |-> userId, title |-> goalTitle, status |-> goalStatus]]

\* { dueDate: { lt: now }, status: { not: 'DONE' }, goal: { status: { not: 'DONE' } } }
IsOverdue(m, t) == m.dueDate < t /\ m.status # "DONE" /\ m.goal.status # "DONE"

\* todayStart: now with setHours(0, 0, 0, 0)
TodayStart(t) == setHours(t, 0, 0)

\* { userId, targetType: 'GOAL', title: { contains: `Overdue Milestone: ${milestone.title}` },
\*   createdAt: { gte: todayStart } }
IsOverdueReminderOf(r, m, t) ==
    /\ r.userId = m.goal.userId /\ r.targetType = "GOAL"
    /\ TextContainsLabel(r.title, "Overdue Milestone: ", m.title)
    /\ r.createdAt >= TodayStart(t)

\* the Reminder row of an overdue milestone; createdAt is the column the store
\* fills in when the row is inserted
OverdueReminder(id, m, t, callNo) ==
    ("createdAt" :> t)
    @@ Reminder(id, m.goal.userId, "GOAL", 0, Text("Overdue Milestone: ", <<m.title>>),
                Text("Your milestone is overdue", <<m.title, m.goal.title>>),
                [AtSchedule(t) EXCEPT !.milestoneId = m.id, !.goalId = m.goal.id], callNo)

\* the body of the loop for the overdue milestones `ms` in the order the query
\* returned them: skip the milestone when a reminder of today matches, else
\* insert the reminder and enqueue its job, due a second after the call (within
\* the minute of the clock)
RECURSIVE NotifyOverdue(_, _, _, _)
NotifyOverdue(st, ms, t, callNo) ==
    IF ms = <<>> THEN st
    ELSE LET m == Head(ms)
             reminder == OverdueReminder(st.nextId, m, t, callNo)
         IN  NotifyOverdue(
                 IF \E r \in st.reminders : IsOverdueReminderOf(r, m, t) THEN st
                 ELSE [st EXCEPT
                         !.reminders = @ \cup {reminder},
                         !.jobs = @ \cup {ReminderJob(st.nextId + 1, reminder.id,
                                                      m.goal.userId, "GOAL_REMINDER", t, t)},
                         !.nextId = @ + 2],
                 Tail(ms), t, callNo)

\* the orders in which a query without orderBy can return the rows S
Orderings(S) ==
    {f \in [1..Cardinality(S) -> S] : \A i, j \in 1..Cardinality(S) : i # j => f[i] # f[j]}

\* checkAndNotifyOverdueMilestones()
checkAndNotifyOverdueMilestones ==
    /\ calls < MaxCalls
    /\ \E overdueMilestones \in Orderings({m \in milestones : IsOverdue(m, now)}) :
       \E st \in {NotifyOverdue(Store, overdueMilestones, now, calls + 1)} :
           /\ Commit(st)
           /\ lastCall' = CallRecord("checkAndNotifyOverdueMilestones", "", 0, <<>>,
                                     [overdueMilestones |-> overdueMilestones], NoDate, {},
                                     {r.id : r \in st.reminders} \ ReminderIds, <<>>,
                                     {j.jid : j \in st.jobs \ jobs})
    /\ calls' = calls + 1
    /\ UNCHANGED <<inflight, milestones, now, routines, pushes, settings, pushAvailable,
                   redelivered, lastFire>>

\* hours between two runs of the periodic check
CheckEvery == 7 * MinPerHour

\* time passes until the check runs again
UntilNextCheck ==
    /\ now + CheckEvery <= MaxTime
    /\ now' = now + CheckEvery
    /\ UNCHANGED <<inflight, milestones, reminders, alarms, notifications, routines, jobs,
                   njobs, nextId, pushes, settings, pushAvailable, calls, redelivered,
                   lastFire, lastCall>>

\* the milestone tables the check runs on, for a clock at t
MilestoneTables(t) ==
    {{Milestone(301, <<"X">>, t - 30, "TODO", 201, "u1", <<"Q">>, "ACTIVE"),
      Milestone(302, <<"Q">>, t - MinPerDay, "IN_PROGRESS", 201, "u1", <<"Q">>, "ACTIVE")},
     {Milestone(301, <<"X">>, t - 30, "TODO", 201, "u1", <<"Q">>, "ACTIVE"),
      Milestone(302, <<"X">>, t - 90, "TODO", 202, "u1", <<"Z">>, "ACTIVE")},
     {Milestone(301, <<"X", "Z">>, t - 30, "TODO", 201, "u1", <<"Q">>, "ACTIVE"),
      Milestone(302, <<"X">>, t - 30, "TODO", 201, "u1", <<"Q">>, "ACTIVE")},
     {Milestone(301, <<"X">>, t - 30, "TODO", 201, "u1", <<"Q">>, "ACTIVE"),
      Milestone(302, <<"X">>, t - 30, "TODO", 202, "u2", <<"Q">>, "ACTIVE")},
     {Milestone(301, <<"X">>, t - 30, "DONE", 201, "u1", <<"Q">>, "ACTIVE"),
      Milestone(302, <<"Q">>, t - 30, "TODO", 202, "u1", <<"Z">>, "DONE"),
      Milestone(303, <<"Z">>, t + 10 * MinPerHour, "TODO", 201, "u1", <<"Q">>, "ACTIVE")}}

InitOverdue ==
    /\ now = MakeDate(2024, 0, 30, 9, 0)
    /\ milestones \in MilestoneTables(now)
    /\ reminders = {} /\ alarms = {} /\ notifications = {} /\ routines = {}
    /\ jobs = {} /\ njobs = {} /\ nextId = 1
    /\ pushes = <<>> /\ settings = DefaultSettings /\ pushAvailable = TRUE
    /\ calls = 0 /\ redelivered = 0 /\ lastFire = NoFire /\ lastCall = NoCall
    /\ inflight = {}

NextOverdue == checkAndNotifyOverdueMilestones \/ UntilNextCheck \/ Worker

SpecOverdue == InitOverdue /\ [][NextOverdue]_vars

\* a run of checkAndNotifyOverdueMilestones has returned
OverdueCheckReturned ==
    lastCall'.n # lastCall.n /\ lastCall'.op = "checkAndNotifyOverdueMilestones"

\* the 'Overdue Milestone' reminders in rs made for milestone m on the day of t
OverdueRemindersOf(rs, m, t) ==
    {r \in rs : /\ r.title.tmpl = "Overdue Milestone: " /\ r.schedule.milestoneId = m.id
                /\ TodayStart(r.createdAt) = TodayStart(t)}

\* C40: checkAndNotifyOverdueMilestones creates at most one 'Overdue Milestone'
\* reminder per overdue milestone per calendar day however many times it runs
\* that day, and on each run every overdue, not-DONE milestone of a not-DONE goal
\* that has no overdue reminder of its own from today gets one: a reminder of a
\* different milestone never suppresses it.
C40_OneOverdueReminderPerDay ==
    [][OverdueCheckReturned =>
          \A m \in milestones :
              /\ Cardinality(OverdueRemindersOf(reminders', m, now)) <= 1
              /\ (IsOverdue(m, now) /\ OverdueRemindersOf(reminders, m, now) = {})
                    => Cardinality(OverdueRemindersOf(reminders', m, now)) = 1]_vars

====
